---- MODULE Spec2Model ----
(***************************************************************************)
(* Portfolio sync engine of rust-web3-risk-platform                        *)
(* (backend/api/src/services/portfolio.rs and the repositories it uses).   *)
(*                                                                         *)
(* A sweep (sync_all_wallets) lists the wallets, spawns one task per       *)
(* wallet behind a semaphore, and joins the tasks, writing one indexer-run *)
(* record per wallet.  A task runs sync_wallet_with_retry; every await of  *)
(* sync_wallet and sync_transactions is one step of the model, and every   *)
(* fallible storage or RPC call can fail at its step.                      *)
(***************************************************************************)
EXTENDS Integers, Sequences, FiniteSets, TLC

\* ---------------------------------------------------------------- bounds
NWallets == 2          \* wallets in the wallet repository (sweep scenario)
MaxRetries == 2        \* largest configured PORTFOLIO_SYNC_RETRIES
MaxConcurrency == 2    \* largest configured PORTFOLIO_MAX_CONCURRENCY
MaxTime == 1           \* clock ticks
MaxHead == 1           \* heads observed above the backfill window
MaxSweeps == 2         \* sweeps the loops start after their first ones, plus one

\* ------------------------------------------------------ program constants
BackfillWindow == 500  \* latest_block.saturating_sub(500)

\* snapshot_min_interval, in clock ticks
MinInterval == 1

\* length of a calendar day, in clock ticks
DayLen == 2

\* the loops that start sweeps: the timer's, and one listener for each chain
\* with a websocket provider ("ws" for chain 1, "ws2" for chain 56)
Triggers == {"timer", "ws", "ws2"}

\* the timer and the listener of chain 1
OneChain == {"timer", "ws"}

\* sync_all_wallets(None) from the timer (0 stands for None),
\* sync_all_wallets(Some(chain_id)) from the chain's listener
chain_filter(tr) == IF tr = "timer" THEN 0 ELSE IF tr = "ws" THEN 1 ELSE 56

\* the chain heads, in the order the chain reaches them
LowHead == 2
Heads == <<LowHead>> \o [k \in 1..MaxHead |-> BackfillWindow + k]

\* prices the oracle can return for a transfer; 0 is unwrap_or(0.0)
Prices == {0, 2}

NoRow == [row |-> FALSE]

Max(a, b) == IF a >= b THEN a ELSE b

VARIABLES
    cfg,        \* the DbPortfolioService fields set by new()
    wallets,    \* the wallet repository: the sequence list_all returns
    enabled,    \* triggers that run sweeps (timer; ws when ws_trigger_enabled)
    sweep,      \* per trigger: the state of its sync_all_wallets call
    task,       \* per trigger and wallet: the spawned task
    snapshots,  \* portfolio_snapshots: per wallet, the timestamps inserted
    daily,      \* portfolio_daily_snapshots: per wallet, day -> snapshot ts
    cursor,     \* wallet_sync_cursors: per wallet, NoRow or the row
    txRows,     \* wallet_transactions: the rows, in insertion order
    runs,       \* per wallet, the statuses passed to log_indexer_run
    head,       \* the chain: index in Heads of the current block number
    now,        \* Utc::now()
    world,      \* what the chain and the oracle answer for each wallet
    price_cache,    \* price_cache: per symbol, NoEntry or the row
    price_history,  \* price_history: per symbol, the points written
    lookup,     \* per caller of the oracle chain: its price_usd call
    ocfg,       \* the CachedPriceOracle fields set by new()
    coingecko,  \* the CoingeckoPriceOracle: its ttl, its in-process cache
                \* and, per caller, the price_usd call made on it
    scans       \* history: per wallet, the sync_transactions calls in the
                \* order in which they read the cursor; kept (on) only in
                \* the scenarios whose properties read it

oracleVars == <<price_cache, price_history, lookup, ocfg, coingecko>>

vars == <<cfg, wallets, enabled, sweep, task, snapshots, daily, cursor,
          txRows, runs, head, now, world, price_cache, price_history,
          lookup, ocfg, coingecko, scans>>

Wallets == 1..NWallets

\* ------------------------------------------------------ pure operations

\* a constructor that takes the two limits as they are configured
new_unclamped(max_concurrency, max_retries, has_tokens, simulation) ==
    [max_concurrency |-> max_concurrency,
     max_retries |-> max_retries,
     snapshot_min_interval |-> MinInterval,
     has_tokens |-> has_tokens,
     simulation |-> simulation]

\* DbPortfolioService::new: both limits are clamped to at least 1
new(max_concurrency, max_retries, has_tokens, simulation) ==
    [max_concurrency |-> Max(max_concurrency, 1),
     max_retries |-> Max(max_retries, 1),
     snapshot_min_interval |-> MinInterval,
     has_tokens |-> has_tokens,
     simulation |-> simulation]

\* ORDER BY snapshot_time DESC LIMIT 1: the newest timestamp, or -1 for None
latest_by_wallet(rows) ==
    IF Len(rows) = 0 THEN -1
    ELSE CHOOSE t \in {rows[i].timestamp : i \in 1..Len(rows)} :
             \A i \in 1..Len(rows) : rows[i].timestamp <= t

\* a guard that never finds the latest snapshot fresh
within_min_interval_never(latest, clock) == FALSE

\* the freshness test of sync_wallet
within_min_interval(latest, clock) ==
    latest >= 0 /\ clock - latest < cfg.snapshot_min_interval

\* timestamp.date_naive()
Day(ts) == ts \div DayLen

\* SELECT last_tx_block: None without a row, else the column (NULL reads 0)
last_tx_block(cur) ==
    IF cur.row THEN [some |-> TRUE, block |-> cur.last_tx_block]
    ELSE [some |-> FALSE, block |-> 0]

\* INSERT .. ON CONFLICT (wallet_id) DO UPDATE SET last_tx_block = EXCLUDED.
\* first_tx_block is history: the first value written to last_tx_block, -1
\* while none was written.
update_last_tx_block(cur, block) ==
    IF cur.row
    THEN [cur EXCEPT !.last_tx_block = block,
                     !.first_tx_block = IF @ < 0 THEN block ELSE @]
    ELSE [row |-> TRUE, last_tx_block |-> block, last_daily_snapshot |-> -1,
          first_tx_block |-> block]

\* a write of the day that replaces the wallet's row
update_last_daily_snapshot_replacing(cur, day) ==
    IF cur.row THEN [cur EXCEPT !.last_daily_snapshot = day,
                                !.last_tx_block = 0]
    ELSE [row |-> TRUE, last_tx_block |-> 0, last_daily_snapshot |-> day,
          first_tx_block |-> -1]

\* INSERT .. ON CONFLICT (wallet_id) DO UPDATE SET last_daily_snapshot = ..
update_last_daily_snapshot(cur, day) ==
    IF cur.row THEN [cur EXCEPT !.last_daily_snapshot = day]
    ELSE [row |-> TRUE, last_tx_block |-> 0, last_daily_snapshot |-> day,
          first_tx_block |-> -1]

\* first block of a scan (sync_transactions, lines 690-699)
scan_last_block(cur, latest_block) ==
    IF last_tx_block(cur).some THEN last_tx_block(cur).block ELSE latest_block

\* a scan that starts at the cursor's block, not after it
scan_start_block_inclusive(cur, latest_block) ==
    IF scan_last_block(cur, latest_block) <= 0
    THEN Max(latest_block - BackfillWindow, 0)
    ELSE scan_last_block(cur, latest_block)

\* if last_block <= 0 { latest_block.saturating_sub(500) }
\* else { last_block + 1 }
scan_start_block(cur, latest_block) ==
    IF scan_last_block(cur, latest_block) <= 0
    THEN Max(latest_block - BackfillWindow, 0)
    ELSE scan_last_block(cur, latest_block) + 1

SameKey(r, t) ==
    /\ r.wallet_id = t.wallet_id
    /\ r.tx_hash = t.tx_hash
    /\ r.log_index = t.log_index

\* an INSERT without the ON CONFLICT clause, on a table without the key
insert_one_blind(rows, t) == Append(rows, t)

\* one INSERT .. ON CONFLICT (wallet_id, tx_hash, log_index) DO NOTHING
insert_one(rows, t) ==
    IF \E i \in 1..Len(rows) : SameKey(rows[i], t) THEN rows
    ELSE Append(rows, t)

\* insert_transactions: the inserts of the batch, in order, in one transaction
RECURSIVE insert_transactions(_, _)
insert_transactions(rows, txs) ==
    IF Len(txs) = 0 THEN rows
    ELSE insert_transactions(insert_one(rows, Head(txs)), Tail(txs))

\* Transfer logs of the chain that touch the scanning wallet, in block order.
\* from_w: the wallet is the sender (topic1); to_w: the recipient (topic2).
ChainLog ==
    << [block |-> 1, tx_hash |-> "a", log_index |-> 0,
        from_w |-> TRUE, to_w |-> FALSE],
       [block |-> BackfillWindow + 1, tx_hash |-> "b", log_index |-> 0,
        from_w |-> TRUE, to_w |-> TRUE] >>

InRange(l, from_block, to_block) ==
    from_block <= l.block /\ l.block <= to_block

from_logs_match(l, from_block, to_block) ==
    InRange(l, from_block, to_block) /\ l.from_w

to_logs_match(l, from_block, to_block) ==
    InRange(l, from_block, to_block) /\ l.to_w

\* eth_getLogs with topic1 = wallet (match_from) or topic2 = wallet
fetch_transfer_logs(from_block, to_block, match_from) ==
    IF match_from
    THEN SelectSeq(ChainLog, LAMBDA l : from_logs_match(l, from_block, to_block))
    ELSE SelectSeq(ChainLog, LAMBDA l : to_logs_match(l, from_block, to_block))

\* the WalletTransaction built from a log (lines 760-804); amount is 1
to_transaction(w, l, price) ==
    [wallet_id |-> w, tx_hash |-> l.tx_hash, log_index |-> l.log_index,
     block_number |-> l.block, usd_value |-> price,
     direction |-> IF l.to_w THEN "in" ELSE "out"]

\* ------------------------------------------------------------- the state

\* A wallet task.  attempt, latest_block, timestamp, start_block and txs are
\* the locals of sync_wallet_with_retry, sync_wallet and sync_transactions.
\* The other fields are history: fails and snaps count the failed attempts
\* and the snapshots inserted by the task; tx_err, scan and cursor_write
\* tell how the last sync_transactions call went (whether it failed, which
\* exit it took, whether its update_last_tx_block succeeded); snap,
\* log_queries and inserted tell what the running attempt has done so far.
\* positions and total_usd_value are locals of sync_wallet too; of the last
\* attempt, native_price_err tells whether the native price lookup failed,
\* queried lists the tokens whose balance was queried, skipped holds those
\* whose query failed, token_price_errs those held with a non-zero amount
\* whose price lookup failed, and asked is the symbol the native price was
\* asked for.  err is the error the last attempt returned.  scanned is the
\* block range [start_block, latest_block] of the task's scan once its log
\* queries and its batch insert, if it had one, have succeeded.
\* no block range: from > to
NoScan == [from |-> 1, to |-> 0]

NoTask ==
    [pc |-> "none", attempt |-> 0, result |-> "none",
     latest_block |-> 0, timestamp |-> 0, start_block |-> 0, txs |-> <<>>,
     fails |-> 0, snaps |-> 0, tx_err |-> FALSE, scan |-> "none",
     cursor_write |-> "none",
     snap |-> FALSE, log_queries |-> 0, inserted |-> FALSE,
     positions |-> <<>>, total_usd_value |-> 0,
     native_price_err |-> FALSE, queried |-> <<>>, skipped |-> {},
     token_price_errs |-> {}, asked |-> "none", err |-> "none",
     scanned |-> NoScan]

\* the locals and the per-attempt record at the start of an attempt
FreshAttempt(t) ==
    [t EXCEPT !.tx_err = FALSE, !.scan = "none", !.cursor_write = "none",
              !.native_price_err = FALSE, !.queried = <<>>, !.skipped = {},
              !.token_price_errs = {}, !.asked = "none"]

\* round counts the sweeps the trigger's loop has finished
NoSweep ==
    [phase |-> "idle", list |-> <<>>, next |-> 1, permits |-> 0,
     joined |-> 1, ret |-> "none", round |-> 0]

Running(tr) ==
    {w \in Wallets : task[tr][w].pc \notin {"none", "done"}}

\* -------------------------------------------------- sync_wallet_with_retry

\* a retry loop that allows one attempt too many
should_retry_off_by_one(attempt, max_retries) == attempt <= max_retries

\* Err(err) if attempt < self.max_retries
should_retry(attempt, max_retries) == attempt < max_retries

\* the task after sync_wallet returned: Ok ends the loop, Err retries after
\* the backoff sleep or ends the loop when the attempts are used up; the
\* locals of the finished call are dropped
attempt_ended(t, ok) ==
    LET d == [t EXCEPT !.latest_block = 0, !.timestamp = 0,
                       !.start_block = 0, !.txs = <<>>, !.snap = FALSE,
                       !.log_queries = 0, !.inserted = FALSE,
                       !.positions = <<>>, !.total_usd_value = 0]
    IN  IF ok THEN [d EXCEPT !.pc = "done", !.result = "ok", !.err = "none"]
        ELSE IF should_retry(t.attempt, cfg.max_retries)
             THEN [d EXCEPT !.pc = "backoff", !.fails = @ + 1]
             ELSE [d EXCEPT !.pc = "done", !.result = "err", !.fails = @ + 1]

\* the task's new record; a task that ended drops its permit
TaskStep(tr, w, t2) ==
    /\ task' = [task EXCEPT ![tr][w] = t2]
    /\ sweep' = IF t2.pc = "done"
                THEN [sweep EXCEPT ![tr].permits = @ + 1]
                ELSE sweep

\* sleep(self.retry_backoff * attempt) has elapsed
retry_backoff(tr, w) ==
    /\ task[tr][w].pc = "backoff"
    /\ task' = [task EXCEPT ![tr][w].pc = "loop"]
    /\ UNCHANGED <<oracleVars, scans, world, cfg, wallets, enabled, sweep, snapshots, daily, cursor,
                   txRows, runs, head, now>>

\* ------------------------------------------------------------ sync_wallet

\* attempt += 1, then the freshness guard: latest_by_wallet and the clock
\* a guard that is evaluated after the native price lookup
skip_sync_priced(a) == attempt_ended([a EXCEPT !.asked = "ETH"], TRUE)

\* "skip sync (within min interval)"; return Ok(())
skip_sync(a) == attempt_ended(a, TRUE)

sync_wallet_guard(tr, w) ==
    LET a == FreshAttempt([task[tr][w] EXCEPT !.attempt = @ + 1]) IN
    /\ task[tr][w].pc = "loop"
    /\ \E ok \in BOOLEAN :
         TaskStep(tr, w,
            IF ~ok THEN attempt_ended([a EXCEPT !.err = "latest_by_wallet"], FALSE)
            ELSE IF within_min_interval(latest_by_wallet(snapshots[w]), now)
                 THEN skip_sync(a)
                 ELSE [a EXCEPT !.pc = "fetch"])
    /\ UNCHANGED <<oracleVars, scans, world, cfg, wallets, enabled, snapshots, daily, cursor, txRows,
                   runs, head, now>>

\* the native asset of the wallet's chain: BNB on chain 56
native_symbol(chain_id) == IF chain_id = 56 THEN "BNB" ELSE "ETH"

\* the symbol whose price values the native balance:
\* self.oracle.price_usd("ETH", wallet.chain_id)
native_price_symbol(chain_id) == "ETH"

\* the label of a token position: Binance-Peg ETH is shown as WETH (BSC)
display_symbol(chain_id, symbol) ==
    IF chain_id = 56 /\ symbol = "ETH" THEN "WETH (BSC)" ELSE symbol

\* self.tokens.iter().filter(|t| t.chain_id == wallet.chain_id)
tokens_of(chain_id) ==
    IF ~cfg.has_tokens THEN <<>>
    ELSE IF chain_id = 56 THEN <<"USDC", "ETH">> ELSE <<"USDC", "DAI">>

\* if eth_amount > 0.0 { positions.push(..) }
native_positions(chain_id, amount, price) ==
    IF amount > 0
    THEN <<[asset_symbol |-> native_symbol(chain_id), amount |-> amount,
            usd_value |-> amount * price]>>
    ELSE <<>>

\* a token loop that gives up at the first failed balance query
token_query_failed_stop(rest) == <<>>

\* the positions of the remaining tokens after one whose balance query
\* failed: continue
token_query_failed(rest) == rest

\* a token loop that fails the sync when a token price is missing would not
\* reach this: price_usd(..).await.unwrap_or_else(|err| 0.0)
token_price(symbol) ==
    IF world.price[symbol].ok THEN world.price[symbol].price ELSE 0

\* the token loop (lines 913-1009): a failed balance query and a zero amount
\* skip the token; the price is asked for token.symbol
RECURSIVE token_positions(_, _)
token_positions(chain_id, tokens) ==
    IF Len(tokens) = 0 THEN <<>>
    ELSE LET symbol == Head(tokens)
             rest == token_positions(chain_id, Tail(tokens))
         IN  IF symbol \in world.call_fails THEN token_query_failed(rest)
             ELSE IF world.token_amount[symbol] = 0 THEN rest
             ELSE <<[asset_symbol |-> display_symbol(chain_id, symbol),
                     amount |-> world.token_amount[symbol],
                     usd_value |-> world.token_amount[symbol]
                                      * token_price(symbol)]>> \o rest

\* the tokens whose balance query is made: every token of the chain; the
\* loop leaves early only with the error of format_units, which the model
\* counts among the failures of the attempt
RECURSIVE queried_tokens(_)
queried_tokens(tokens) ==
    IF Len(tokens) = 0 THEN <<>>
    ELSE IF Head(tokens) \in world.call_fails
         THEN <<Head(tokens)>> \o token_query_failed(queried_tokens(Tail(tokens)))
         ELSE <<Head(tokens)>> \o queried_tokens(Tail(tokens))

\* SimulationConfig::demo(): the synthetic positions of simulation mode;
\* their amounts and prices follow simulation_wave and stay above zero
simulation_positions ==
    IF cfg.simulation
    THEN <<[asset_symbol |-> "SIM_BTC", amount |-> 1, usd_value |-> 7],
           [asset_symbol |-> "SIM_USDC", amount |-> 9, usd_value |-> 9]>>
    ELSE <<>>

\* a total that leaves out the last position
RECURSIVE sum_usd_value_short(_)
sum_usd_value_short(positions) ==
    IF Len(positions) <= 1 THEN 0
    ELSE Head(positions).usd_value + sum_usd_value_short(Tail(positions))

\* positions.iter().map(|p| p.usd_value).sum()
RECURSIVE sum_usd_value(_)
sum_usd_value(positions) ==
    IF Len(positions) = 0 THEN 0
    ELSE Head(positions).usd_value + sum_usd_value(Tail(positions))

\* block number, balances and prices (lines 881-1029); timestamp = Utc::now().
\* The first disjunct is a failure of get_block_number or get_balance.
sync_wallet_fetch(tr, w) ==
    LET t == task[tr][w]
        chain_id == world.chain_id[w]
        price == world.price[native_price_symbol(chain_id)]
        tokens == tokens_of(chain_id)
        positions == native_positions(chain_id, world.native[w], price.price)
                        \o token_positions(chain_id, tokens)
                        \o simulation_positions
    IN
    /\ t.pc = "fetch"
    /\ \/ TaskStep(tr, w, attempt_ended([t EXCEPT !.err = "provider"], FALSE))
       \/ TaskStep(tr, w,
            IF ~price.ok
            THEN attempt_ended(
                    [t EXCEPT !.asked = native_price_symbol(chain_id),
                              !.native_price_err = TRUE,
                              !.err = "price_usd"], FALSE)
            ELSE [t EXCEPT !.pc = "insert_snapshot",
                           !.latest_block = Heads[head],
                           !.timestamp = now,
                           !.positions = positions,
                           !.total_usd_value = sum_usd_value(positions),
                           !.asked = native_price_symbol(chain_id),
                           !.queried = queried_tokens(tokens),
                           !.skipped = {tokens[i] : i \in 1..Len(tokens)}
                                          \cap world.call_fails,
                           !.token_price_errs =
                               {s \in {tokens[i] : i \in 1..Len(tokens)} :
                                   /\ s \notin world.call_fails
                                   /\ world.token_amount[s] # 0
                                   /\ ~world.price[s].ok}])
    /\ UNCHANGED <<oracleVars, scans, world, cfg, wallets, enabled, snapshots, daily, cursor, txRows,
                   runs, head, now>>

\* an insert whose failure is dropped like that of the daily upsert
insert_snapshot_failed_dropped(t) == [t EXCEPT !.pc = "daily"]

\* insert_snapshot(&snapshot).await? with an Err: sync_wallet returns it
insert_snapshot_failed(t) ==
    attempt_ended([t EXCEPT !.err = "insert_snapshot"], FALSE)

\* an insert that reads the latest snapshot again and gives up when it is
\* younger than snapshot_min_interval
sync_wallet_insert_snapshot_rechecked(tr, w) ==
    LET t == task[tr][w] IN
    /\ t.pc = "insert_snapshot"
    /\ \/ /\ TaskStep(tr, w, insert_snapshot_failed(t))
          /\ UNCHANGED snapshots
       \/ /\ ~within_min_interval(latest_by_wallet(snapshots[w]), now)
          /\ snapshots' = [snapshots EXCEPT ![w] =
                               Append(@, [timestamp |-> t.timestamp,
                                          positions |-> t.positions,
                                          total_usd_value |-> t.total_usd_value])]
          /\ TaskStep(tr, w, [t EXCEPT !.pc = "daily", !.snap = TRUE,
                                       !.snaps = @ + 1])
    /\ UNCHANGED <<oracleVars, scans, world, cfg, wallets, enabled, daily,
                   cursor, txRows, runs, head, now>>

\* self.snapshot_repo.insert_snapshot(&snapshot).await?
sync_wallet_insert_snapshot(tr, w) ==
    LET t == task[tr][w] IN
    /\ t.pc = "insert_snapshot"
    /\ \/ /\ TaskStep(tr, w, insert_snapshot_failed(t))
          /\ UNCHANGED snapshots
       \/ /\ snapshots' = [snapshots EXCEPT ![w] =
                               Append(@, [timestamp |-> t.timestamp,
                                          positions |-> t.positions,
                                          total_usd_value |-> t.total_usd_value])]
          /\ TaskStep(tr, w, [t EXCEPT !.pc = "daily", !.snap = TRUE,
                                       !.snaps = @ + 1])
    /\ UNCHANGED <<oracleVars, scans, world, cfg, wallets, enabled, daily, cursor, txRows, runs, head, now>>

\* a daily write whose error is returned from sync_wallet
write_dropped_propagating(t) == attempt_ended(t, FALSE)

\* .await.ok() on an Err: the error is dropped and sync_wallet goes on
write_dropped(t) == [t EXCEPT !.pc = "tx_read"]

\* an upsert that leaves the row of a day that has one as it is
upsert_daily_snapshot_kept(old, total_usd_value, positions) ==
    IF old.row THEN old
    ELSE [row |-> TRUE, total_usd_value |-> total_usd_value,
          positions |-> positions]

\* INSERT .. ON CONFLICT (wallet_id, day) DO UPDATE SET total_usd_value =
\* EXCLUDED.total_usd_value, positions = EXCLUDED.positions: the day's row
upsert_daily_snapshot(old, total_usd_value, positions) ==
    [row |-> TRUE, total_usd_value |-> total_usd_value,
     positions |-> positions]

\* upsert_daily_snapshot(..).await.ok(), then
\* update_last_daily_snapshot(..).await.ok(): each write can fail unnoticed
sync_wallet_daily(tr, w) ==
    LET t == task[tr][w] IN
    /\ t.pc = "daily"
    /\ \E upserted, written \in BOOLEAN :
          /\ daily' = IF upserted
                      THEN [daily EXCEPT ![w][Day(t.timestamp)] =
                               upsert_daily_snapshot(@, t.total_usd_value,
                                                     t.positions)]
                      ELSE daily
          /\ cursor' = IF written
                       THEN [cursor EXCEPT ![w] =
                                update_last_daily_snapshot(@, Day(t.timestamp))]
                       ELSE cursor
          /\ TaskStep(tr, w, IF upserted /\ written
                             THEN [t EXCEPT !.pc = "tx_read"]
                             ELSE write_dropped(t))
    /\ UNCHANGED <<oracleVars, scans, world, cfg, wallets, enabled, snapshots, txRows, runs, head, now>>

\* ------------------------------------------------------ sync_transactions

\* a sync_wallet that returns the error of sync_transactions
tx_failed_propagating(t) == attempt_ended([t EXCEPT !.tx_err = TRUE], FALSE)

\* sync_transactions returned Err: sync_wallet logs it and returns Ok
tx_failed(t) == attempt_ended([t EXCEPT !.tx_err = TRUE], TRUE)

\* a scan without the early exit
nothing_new_never(start_block, latest_block) == FALSE

\* if start_block > latest_block
nothing_new(start_block, latest_block) == start_block > latest_block

NoHistory == [on |-> FALSE, log |-> [w \in Wallets |-> <<>>]]

History == [on |-> TRUE, log |-> [w \in Wallets |-> <<>>]]

\* the history with the log of a wallet replaced, where it is kept
logged(w, log) == IF scans.on THEN [scans EXCEPT !.log[w] = log] ELSE scans

\* the history record of a sync_transactions call that has read the cursor:
\* last_block is the last_tx_block it read, -1 for None
open_scan(tr, cur, start_block, latest_block) ==
    [tr |-> tr, from |-> start_block, to |-> latest_block,
     last_block |-> IF last_tx_block(cur).some
                    THEN last_tx_block(cur).block ELSE -1,
     exit |-> "running", wrote |-> FALSE]

\* the history record of a call whose last_tx_block read failed
failed_read(tr) ==
    [tr |-> tr, from |-> 1, to |-> 0, last_block |-> -1,
     exit |-> "read_failed", wrote |-> FALSE]

\* the history after the running call of a trigger's task has returned
close_scan(log, tr, exit, wrote) ==
    [i \in 1..Len(log) |->
        IF log[i].tr = tr /\ log[i].exit = "running"
        THEN [log[i] EXCEPT !.exit = exit, !.wrote = wrote]
        ELSE log[i]]

\* last_tx_block, start_block and the two early exits (lines 690-721)
sync_transactions_read(tr, w) ==
    LET t == task[tr][w]
        start_block == scan_start_block(cursor[w], t.latest_block)
    IN
    /\ t.pc = "tx_read"
    /\ \/ /\ TaskStep(tr, w, tx_failed(t))
          /\ scans' = logged(w, Append(scans.log[w], failed_read(tr)))
       \/ /\ TaskStep(tr, w,
               IF nothing_new(start_block, t.latest_block)
               THEN [t EXCEPT !.pc = "tx_cursor", !.scan = "early",
                              !.start_block = start_block]
               ELSE IF ~cfg.has_tokens
               THEN [t EXCEPT !.pc = "tx_cursor", !.scan = "no_tokens",
                              !.start_block = start_block]
               ELSE [t EXCEPT !.pc = "tx_logs", !.start_block = start_block])
          /\ scans' = logged(w, Append(scans.log[w],
                                        open_scan(tr, cursor[w], start_block,
                                                  t.latest_block)))
    /\ UNCHANGED <<oracleVars, world, cfg, wallets, enabled, snapshots, daily,
                   cursor, txRows, runs, head, now>>

\* all_logs: from_logs then to_logs
all_logs(from_block, to_block) ==
    fetch_transfer_logs(from_block, to_block, TRUE)
        \o fetch_transfer_logs(from_block, to_block, FALSE)

\* a scan that goes from the log queries straight to the cursor write
after_logs_skip_insert(logs) == "tx_cursor"

\* after the log queries: if all_logs.is_empty() the cursor write is next,
\* else the batch insert
after_logs(logs) == IF Len(logs) = 0 THEN "tx_cursor" ELSE "tx_insert"

\* the two log queries and the transactions built from them (lines 723-804)
sync_transactions_logs(tr, w) ==
    LET t == task[tr][w]
        logs == all_logs(t.start_block, t.latest_block)
    IN
    /\ t.pc = "tx_logs"
    /\ \/ /\ \E n \in 1..2 :
               TaskStep(tr, w, tx_failed([t EXCEPT !.log_queries = n]))
          /\ scans' = logged(w, close_scan(scans.log[w], tr,
                                            "logs_failed", FALSE))
       \/ /\ Len(logs) = 0
          /\ UNCHANGED scans
          /\ TaskStep(tr, w, [t EXCEPT !.pc = after_logs(logs),
                                       !.scan = "empty", !.log_queries = 2,
                                       !.scanned = [from |-> t.start_block,
                                                    to |-> t.latest_block]])
       \/ /\ Len(logs) > 0
          /\ UNCHANGED scans
          /\ \E price \in [1..Len(logs) -> Prices] :
               TaskStep(tr, w,
                  [t EXCEPT !.pc = after_logs(logs), !.scan = "found",
                            !.log_queries = 2,
                            !.txs = [i \in 1..Len(logs) |->
                                       to_transaction(w, logs[i], price[i])]])
    /\ UNCHANGED <<oracleVars, world, cfg, wallets, enabled, snapshots, daily,
                   cursor, txRows, runs, head, now>>

\* a scan that advances the cursor although its batch insert failed
insert_failed_cursor_advanced(cur, latest_block) ==
    update_last_tx_block(cur, latest_block)

\* the cursor row after a failed batch insert: the ? returns before
\* update_last_tx_block is reached
insert_failed_cursor(cur, latest_block) == cur

\* self.tx_repo.insert_transactions(&txs).await?
sync_transactions_insert(tr, w) ==
    LET t == task[tr][w] IN
    /\ t.pc = "tx_insert"
    /\ \/ /\ TaskStep(tr, w, tx_failed(t))
          /\ scans' = logged(w, close_scan(scans.log[w], tr,
                                            "insert_failed", FALSE))
          /\ cursor' = [cursor EXCEPT ![w] =
                           insert_failed_cursor(@, t.latest_block)]
          /\ UNCHANGED txRows
       \/ /\ txRows' = insert_transactions(txRows, t.txs)
          /\ TaskStep(tr, w, [t EXCEPT !.pc = "tx_cursor", !.inserted = TRUE,
                                       !.scanned = [from |-> t.start_block,
                                                    to |-> t.latest_block]])
          /\ UNCHANGED <<scans, cursor>>
    /\ UNCHANGED <<oracleVars, world, cfg, wallets, enabled, snapshots, daily,
                   runs, head, now>>

\* update_last_tx_block(wallet.id, wallet.chain_id, latest_block).await.ok()
sync_transactions_cursor(tr, w) ==
    LET t == task[tr][w] IN
    /\ t.pc = "tx_cursor"
    /\ \/ /\ cursor' = [cursor EXCEPT ![w] =
                           update_last_tx_block(@, t.latest_block)]
          /\ TaskStep(tr, w,
                attempt_ended([t EXCEPT !.cursor_write = "ok"], TRUE))
          /\ scans' = logged(w, close_scan(scans.log[w], tr, t.scan, TRUE))
       \/ /\ UNCHANGED cursor
          /\ TaskStep(tr, w,
                attempt_ended([t EXCEPT !.cursor_write = "failed"], TRUE))
          /\ scans' = logged(w, close_scan(scans.log[w], tr, t.scan, FALSE))
    /\ UNCHANGED <<oracleVars, world, cfg, wallets, enabled, snapshots, daily,
                   txRows, runs, head, now>>

\* -------------------------------------------------------- sync_all_wallets

\* a spawn loop that does not wait for a permit
acquire_owned_unguarded(permits) == TRUE

\* semaphore.acquire_owned(): a permit is free
acquire_owned(permits) == permits > 0

\* a semaphore with a permit more than asked for
Semaphore_new_spare(permits) == permits + 1

\* Semaphore::new(self.max_concurrency): the permits of the sweep's own
\* semaphore
Semaphore_new(permits) == permits

\* a join loop that records every task as ok
run_status_always_ok(result) == "ok"

\* the status written for a joined task
run_status(result) == IF result = "ok" THEN "ok" ELSE "error"

\* log_indexer_run(wallet.id, "ok", None) or
\* log_indexer_run(wallet.id, "error", Some(&err.to_string()))
run_record(t) ==
    [status |-> run_status(t.result),
     error |-> IF t.result = "ok" THEN "none" ELSE t.err]

\* SELECT .. FROM wallets
list_all(rows) == rows

\* SELECT .. FROM wallets WHERE chain_id = $1
list_by_chain(rows, chain) ==
    SelectSeq(rows, LAMBDA w : world.chain_id[w] = chain)

\* the wallets a sweep lists
listed(rows, filter) ==
    IF filter # 0 THEN list_by_chain(rows, filter) ELSE list_all(rows)

\* list_all / list_by_chain, then Semaphore::new(self.max_concurrency)
sync_all_wallets_start(tr) ==
    /\ tr \in enabled
    /\ sweep[tr].phase = "idle"
    /\ \/ sweep' = [sweep EXCEPT ![tr].phase = "returned", ![tr].ret = "err"]
       \/ sweep' = [sweep EXCEPT ![tr].phase = "running",
                                 ![tr].list = listed(wallets, chain_filter(tr)),
                                 ![tr].permits =
                                     Semaphore_new(cfg.max_concurrency)]
    /\ UNCHANGED <<oracleVars, scans, world, cfg, wallets, enabled, task, snapshots, daily, cursor,
                   txRows, runs, head, now>>

\* one turn of the spawn loop: acquire a permit, spawn the wallet's task
sync_all_wallets_spawn(tr) ==
    LET s == sweep[tr] IN
    /\ s.phase = "running"
    /\ s.next <= Len(s.list)
    /\ acquire_owned(s.permits)
    /\ sweep' = [sweep EXCEPT ![tr].permits = @ - 1, ![tr].next = @ + 1]
    /\ task' = [task EXCEPT ![tr][s.list[s.next]].pc = "loop"]
    /\ UNCHANGED <<oracleVars, scans, world, cfg, wallets, enabled, snapshots, daily, cursor, txRows,
                   runs, head, now>>

\* a join loop that returns a task's error to the caller of the sweep
joined_sweep_propagating(s, result) ==
    IF result = "err"
    THEN [s EXCEPT !.joined = @ + 1, !.phase = "returned", !.ret = "err"]
    ELSE [s EXCEPT !.joined = @ + 1,
                   !.phase = IF s.joined = Len(s.list)
                             THEN "returned" ELSE "running",
                   !.ret = IF s.joined = Len(s.list) THEN "ok" ELSE "none"]

\* the sweep after one handle was joined with the given task result: the
\* loop goes on whatever the result, and returns Ok after the last handle
joined_sweep(s, result) ==
    [s EXCEPT !.joined = @ + 1,
              !.phase = IF s.joined = Len(s.list) THEN "returned" ELSE "running",
              !.ret = IF s.joined = Len(s.list) THEN "ok" ELSE "none"]

\* one turn of the join loop: handle.await, then log_indexer_run, whose
\* result is discarded; after the last handle the sweep returns Ok
sync_all_wallets_join(tr) ==
    LET s == sweep[tr]
        w == s.list[s.joined]
    IN
    /\ s.phase = "running"
    /\ s.next > Len(s.list)
    /\ s.joined <= Len(s.list)
    /\ task[tr][w].pc = "done"
    /\ runs' = [runs EXCEPT ![w] = Append(@, run_record(task[tr][w]))]
    /\ sweep' = [sweep EXCEPT ![tr] = joined_sweep(s, task[tr][w].result)]
    /\ UNCHANGED <<oracleVars, scans, world, cfg, wallets, enabled, task, snapshots, daily, cursor,
                   txRows, head, now>>

\* ------------------------------------------------------- the price oracle
\* Cached(Recording(Fallback(primary, static))), as bootstrap composes it.
\* A price_usd call of a caller passes through the layers one await at a
\* time; the clock of this part counts seconds.

Err == [ok |-> FALSE, price |-> 0]

Ok(price) == [ok |-> TRUE, price |-> price]

\* what the primary provider can answer: an error, zero or a quote
PrimaryResults == {Err, Ok(0), Ok(3)}

\* what the fallback provider can answer: an error, a negative table entry
\* or a price
FallbackResults == {Err, Ok(-1), Ok(2)}

\* the symbols callers ask for, and the keys of price_cache
AssetSymbols == {"eth"}

CacheSymbols == {"ETH", "USDC"}

\* asset_symbol.to_uppercase()
to_uppercase(asset_symbol) ==
    IF asset_symbol = "eth" THEN "ETH" ELSE asset_symbol

\* the sync tasks and the price refresher
Callers == {"sync", "refresher"}

\* ttl.max(Duration::from_secs(10))
MinCacheTtl == 10

\* PRICE_CACHE_TTL_SECS, default 60
DefaultCacheTtl == 60

\* RecordingPriceOracle::new: min_interval = 60 s
RecordMinInterval == 60

\* a constructor that takes the configured TTL as it is
cached_new_unfloored(ttl) == [ttl |-> ttl]

\* CachedPriceOracle::new
cached_new(ttl) == [ttl |-> Max(ttl, MinCacheTtl)]

NoEntry == [row |-> FALSE, price |-> 0, expires_at |-> 0]

\* a cache read that never finds a row
get_cached_price_never(entry, clock) == [some |-> FALSE, price |-> 0]

\* SELECT price FROM price_cache WHERE symbol = $1 AND expires_at > $2
get_cached_price(entry, clock) ==
    IF entry.row /\ entry.expires_at > clock
    THEN [some |-> TRUE, price |-> entry.price]
    ELSE [some |-> FALSE, price |-> 0]

\* INSERT .. ON CONFLICT (symbol) DO UPDATE: expires_at = NOW() + ttl,
\* with ttl_seconds.max(1)
upsert_price(price, ttl_seconds, clock) ==
    [row |-> TRUE, price |-> price, expires_at |-> clock + Max(ttl_seconds, 1)]

\* an upsert that leaves a row that is there alone
on_conflict_nothing(old, entry) == IF old.row THEN old ELSE entry

\* ON CONFLICT (symbol) DO UPDATE SET price = EXCLUDED.price, ..: the row
\* of the symbol after the statement
on_conflict_update(old, entry) == entry

\* a Fallback layer that accepts a zero price
usable_or_zero(r) == r.ok /\ r.price >= 0

\* Ok(price) if price > 0.0
usable(r) == r.ok /\ r.price > 0

\* a Fallback layer that takes any Ok answer, whatever its price
FallbackPriceOracle_price_usd_unchecked(primary, fallback) ==
    IF primary.ok
    THEN [ok |-> TRUE, price |-> primary.price, fallback_called |-> FALSE]
    ELSE IF fallback.ok
    THEN [ok |-> TRUE, price |-> fallback.price, fallback_called |-> TRUE]
    ELSE [ok |-> FALSE, price |-> 0, fallback_called |-> TRUE]

\* FallbackPriceOracle::price_usd, given what the two providers answer; the
\* fallback provider is asked only when the primary's answer is not usable
FallbackPriceOracle_price_usd(primary, fallback) ==
    IF usable(primary)
    THEN [ok |-> TRUE, price |-> primary.price, fallback_called |-> FALSE]
    ELSE IF usable(fallback)
    THEN [ok |-> TRUE, price |-> fallback.price, fallback_called |-> TRUE]
    ELSE [ok |-> FALSE, price |-> 0, fallback_called |-> TRUE]

\* a Fallback layer that asks the fallback provider whatever the primary says
after_primary_always_fallback(primary) == "fallback"

\* the await that follows the primary's answer in the composed chain: the
\* Recording layer when the price is usable, else the fallback provider
after_primary(primary) == IF usable(primary) THEN "record" ELSE "fallback"

\* A price_usd call of a caller.  asset_symbol, symbol, primary and price are
\* its locals; result and ret are what it returned.  The other fields are
\* history of the call: cached tells what
\* the cache read gave ("hit", "miss", "unusable" for a price <= 0, "err");
\* primary_calls, fallback_calls and cache_writes count the provider calls
\* and the upsert_price calls; wrote tells whether the upsert succeeded and
\* expires_at the expiry it asked for; promised holds the prices that the
\* calls which had returned when this call started (the caller's previous
\* call and the last call of the other caller) had upserted for the symbol
\* with an expiry after that start.  at is the Recording layer's local now;
\* looked tells what its history lookup gave ("err", "absent" for no point,
\* "recent", "old") and persist how its history write went ("ok",
\* "failed").
NoLookup ==
    [pc |-> "idle", asset_symbol |-> "", symbol |-> "",
     primary |-> Err, fallback |-> Err, price |-> 0,
     result |-> "none", ret |-> 0, cached |-> "none",
     primary_calls |-> 0, fallback_calls |-> 0, cache_writes |-> 0,
     wrote |-> FALSE, expires_at |-> 0, promised |-> {},
     at |-> 0, looked |-> "none", persist |-> "none"]

\* the prices promised for a symbol at a time: those upserted, by a write
\* that succeeded, by the calls that have returned after they read no usable
\* entry, with an expiry after it
Promised(symbol, clock) ==
    {lookup[c].ret : c \in {x \in Callers :
                               /\ lookup[x].pc = "done"
                               /\ lookup[x].cached \in {"miss", "unusable"}
                               /\ lookup[x].wrote
                               /\ lookup[x].symbol = symbol
                               /\ lookup[x].expires_at > clock}}

\* the call after it returned: its locals are dropped
returned(l, result, ret) ==
    [l EXCEPT !.pc = "done", !.result = result, !.ret = ret,
              !.asset_symbol = "", !.primary = Err, !.fallback = Err,
              !.price = 0, !.at = 0]

\* CachedPriceOracle::price_usd up to the cache read (lines 475-487): a read
\* error and a missing, expired or non-positive entry lead to the wrapped
\* oracle, a live entry with price > 0 is returned
cache_get(c) ==
    /\ lookup[c].pc \in {"idle", "done"}
    /\ \E asset_symbol \in AssetSymbols, read_ok \in BOOLEAN :
         LET symbol == to_uppercase(asset_symbol)
             got == get_cached_price(price_cache[symbol], now)
             l == [NoLookup EXCEPT !.asset_symbol = asset_symbol,
                                   !.symbol = symbol,
                                   !.promised = Promised(symbol, now)]
         IN  lookup' = [lookup EXCEPT ![c] =
                 IF ~read_ok
                 THEN [l EXCEPT !.pc = "primary", !.cached = "err"]
                 ELSE IF ~got.some
                 THEN [l EXCEPT !.pc = "primary", !.cached = "miss"]
                 ELSE IF got.price > 0
                 THEN returned([l EXCEPT !.cached = "hit"], "ok", got.price)
                 ELSE [l EXCEPT !.pc = "primary", !.cached = "unusable"]]
    /\ UNCHANGED <<price_cache, price_history, ocfg, coingecko, scans, world, cfg,
                   wallets, enabled, sweep, task, snapshots, daily, cursor,
                   txRows, runs, head, now>>

\* FallbackPriceOracle::price_usd: self.primary.price_usd(..).await
fallback_primary(c) ==
    LET l == lookup[c] IN
    /\ l.pc = "primary"
    /\ \E primary \in PrimaryResults :
         lookup' = [lookup EXCEPT ![c] =
             [l EXCEPT !.pc = after_primary(primary),
                       !.at = IF after_primary(primary) = "record"
                              THEN now ELSE 0,
                       !.primary = primary,
                       !.primary_calls = @ + 1,
                       !.price = FallbackPriceOracle_price_usd(primary, Err).price]]
    /\ UNCHANGED <<price_cache, price_history, ocfg, coingecko, scans, world, cfg,
                   wallets, enabled, sweep, task, snapshots, daily, cursor,
                   txRows, runs, head, now>>

\* FallbackPriceOracle::price_usd: self.fallback.price_usd(..).await; an
\* error of the Fallback layer passes through the Recording and the Cache
\* layer (both use ?) to the caller
fallback_fallback(c) ==
    LET l == lookup[c] IN
    /\ l.pc = "fallback"
    /\ \E fallback \in FallbackResults :
         LET r == FallbackPriceOracle_price_usd(l.primary, fallback)
             l2 == [l EXCEPT !.fallback = fallback, !.fallback_calls = @ + 1]
         IN  lookup' = [lookup EXCEPT ![c] =
                 IF r.ok
                 THEN [l2 EXCEPT !.pc = "record", !.price = r.price,
                                 !.at = now]
                 ELSE returned(l2, "err", 0)]
    /\ UNCHANGED <<price_cache, price_history, ocfg, coingecko, scans, world, cfg,
                   wallets, enabled, sweep, task, snapshots, daily, cursor,
                   txRows, runs, head, now>>

\* latest_timestamp of the symbol's points, or -1 for None
latest_timestamp(points) ==
    IF Len(points) = 0 THEN -1
    ELSE CHOOSE t \in {points[i].price_ts : i \in 1..Len(points)} :
             \A i \in 1..Len(points) : points[i].price_ts <= t

\* a Recording layer that writes a point at every call
should_persist_always(points, clock) == TRUE

\* Ok(Some(latest)) => now - latest >= min_interval; Ok(None) => true
should_persist(points, clock) ==
    latest_timestamp(points) < 0
        \/ clock - latest_timestamp(points) >= RecordMinInterval

\* INSERT .. ON CONFLICT (symbol, price_ts) DO UPDATE SET price = ..
upsert_points(points, point) ==
    IF \E i \in 1..Len(points) : points[i].price_ts = point.price_ts
    THEN [i \in 1..Len(points) |->
             IF points[i].price_ts = point.price_ts THEN point ELSE points[i]]
    ELSE Append(points, point)

\* a Recording layer that returns the error of its history lookup
lookup_failed_propagating(l) == returned(l, "err", 0)

\* Err(err) => { warn!(..); false }: no write, the call goes on
lookup_failed(l) == [l EXCEPT !.pc = "upsert", !.looked = "err"]

\* RecordingPriceOracle::price_usd after the wrapped call (lines 418-432):
\* now was read when the wrapped call returned; the history lookup decides
\* whether a point is written
recording_lookup(c) ==
    LET l == lookup[c]
        points == price_history[l.symbol]
    IN
    /\ l.pc = "record"
    /\ \E lookup_ok \in BOOLEAN :
         lookup' = [lookup EXCEPT ![c] =
             IF ~lookup_ok THEN lookup_failed(l)
             ELSE IF should_persist(points, l.at)
             THEN [l EXCEPT !.pc = "persist",
                            !.looked = IF latest_timestamp(points) < 0
                                       THEN "absent" ELSE "old"]
             ELSE [l EXCEPT !.pc = "upsert", !.looked = "recent"]]
    /\ UNCHANGED <<price_cache, price_history, ocfg, coingecko, scans, world, cfg,
                   wallets, enabled, sweep, task, snapshots, daily, cursor,
                   txRows, runs, head, now>>

\* RecordingPriceOracle::price_usd, if should_persist (lines 434-445): the
\* point carries the price and the local now; a failed write is logged
recording_persist(c) ==
    LET l == lookup[c] IN
    /\ l.pc = "persist"
    /\ \E write_ok \in BOOLEAN :
         /\ price_history' =
                IF write_ok
                THEN [price_history EXCEPT ![l.symbol] =
                         upsert_points(@, [price |-> l.price, price_ts |-> l.at])]
                ELSE price_history
         /\ lookup' = [lookup EXCEPT ![c] =
                [l EXCEPT !.pc = "upsert",
                          !.persist = IF write_ok THEN "ok" ELSE "failed"]]
    /\ UNCHANGED <<price_cache, ocfg, coingecko, scans, world, cfg,
                   wallets, enabled, sweep, task, snapshots, daily, cursor,
                   txRows, runs, head, now>>

\* CachedPriceOracle::price_usd after the wrapped call (lines 489-498):
\* upsert_price, whose error is logged and dropped, then Ok(price)
cache_upsert(c) ==
    LET l == lookup[c]
        entry == upsert_price(l.price, ocfg.ttl, now)
    IN
    /\ l.pc = "upsert"
    /\ \E write_ok \in BOOLEAN :
         /\ price_cache' = IF write_ok
                           THEN [price_cache EXCEPT ![l.symbol] =
                                    on_conflict_update(@, entry)]
                           ELSE price_cache
         /\ lookup' = [lookup EXCEPT ![c] =
                returned([l EXCEPT !.cache_writes = @ + 1,
                                   !.wrote = write_ok,
                                   !.expires_at = entry.expires_at],
                         "ok", l.price)]
    /\ UNCHANGED <<price_history, ocfg, coingecko, scans, world, cfg,
                   wallets, enabled, sweep, task, snapshots, daily, cursor,
                   txRows, runs, head, now>>

\* --------------------------------------------------- CoingeckoPriceOracle
\* The primary provider, with its in-process cache; its clock counts
\* seconds.

NoQuote == [row |-> FALSE, price |-> 0, fetched_at |-> 0]

\* what the request can give besides a quote: a failed send, a non-success
\* status, a body that does not decode, a body without the price field
Failures == {"send_failed", "status", "undecodable", "missing"}

\* the quotes a response can carry
Quotes == {0, 3, 4}

\* A price_usd call on the primary provider.  symbol and stale_price are
\* its locals; result and ret are what it returned; response is history:
\* what its request gave ("none" when none was sent), and had_stale whether
\* stale_price was Some when the response came.
NoCall ==
    [pc |-> "idle", symbol |-> "", stale_price |-> [some |-> FALSE, price |-> 0],
     result |-> "none", ret |-> 0, response |-> "none", had_stale |-> FALSE]

\* CoingeckoPriceOracle::new
CoingeckoPriceOracle_new(ttl) ==
    [ttl |-> ttl,
     cache |-> [s \in CacheSymbols |-> NoQuote],
     call |-> [c \in Callers |-> NoCall]]

\* cache.get(symbol).map(|entry| (entry.price, elapsed() <= self.ttl))
cached_price(entry, ttl, clock) ==
    [some |-> entry.row, price |-> entry.price,
     fresh |-> entry.row /\ clock - entry.fetched_at <= ttl]

\* cache.insert(symbol, CachedPrice { price, fetched_at: Instant::now() })
store_price(price, clock) ==
    [row |-> TRUE, price |-> price, fetched_at |-> clock]

\* if !status.is_success(): Ok(stale_price) if there is one, else Err
status_failed(stale_price) ==
    IF stale_price.some THEN Ok(stale_price.price) ELSE Err

\* .ok_or_else(|| anyhow!("coingecko price missing ..."))?
price_missing(stale_price) == Err

\* what price_usd returns for a response without a quote; a failed send
\* and a body that does not decode end in ? as well
no_quote(failure, stale_price) ==
    IF failure = "status" THEN status_failed(stale_price)
    ELSE IF failure = "missing" THEN price_missing(stale_price)
    ELSE Err

\* the call after it returned: its locals are dropped
call_returned(l, r) ==
    [l EXCEPT !.pc = "done", !.result = IF r.ok THEN "ok" ELSE "err",
              !.ret = r.price, !.symbol = "",
              !.stale_price = [some |-> FALSE, price |-> 0]]

\* CoingeckoPriceOracle::price_usd up to the request (lines 217-223): a
\* fresh entry is returned, else the entry's price is kept as stale_price
coingecko_cached(c) ==
    /\ coingecko.call[c].pc \in {"idle", "done"}
    /\ \E asset_symbol \in AssetSymbols :
         LET symbol == to_uppercase(asset_symbol)
             got == cached_price(coingecko.cache[symbol], coingecko.ttl, now)
             l == [NoCall EXCEPT !.symbol = symbol]
         IN  coingecko' = [coingecko EXCEPT !.call[c] =
                 IF got.fresh
                 THEN call_returned(l, Ok(got.price))
                 ELSE [l EXCEPT !.pc = "request",
                                !.stale_price = [some |-> got.some,
                                                 price |-> got.price]]]
    /\ UNCHANGED <<price_cache, price_history, lookup, ocfg, scans, world,
                   cfg, wallets, enabled, sweep, task, snapshots, daily,
                   cursor, txRows, runs, head, now>>

\* CoingeckoPriceOracle::price_usd from the response on (lines 224-248): a
\* quote is stored and returned
coingecko_response(c) ==
    LET l == coingecko.call[c] IN
    /\ l.pc = "request"
    /\ \/ \E failure \in Failures :
            coingecko' = [coingecko EXCEPT !.call[c] =
                call_returned([l EXCEPT !.response = failure,
                                        !.had_stale = l.stale_price.some],
                              no_quote(failure, l.stale_price))]
       \/ \E price \in Quotes :
            coingecko' = [coingecko EXCEPT
                !.cache[l.symbol] = store_price(price, now),
                !.call[c] = call_returned([l EXCEPT !.response = "quote",
                                                    !.had_stale = l.stale_price.some],
                                          Ok(price))]
    /\ UNCHANGED <<price_cache, price_history, lookup, ocfg, scans, world,
                   cfg, wallets, enabled, sweep, task, snapshots, daily,
                   cursor, txRows, runs, head, now>>

\* ------------------------------------------- spawn_indexer, spawn_ws_listeners

\* a loop that starts its next sweep without waiting for the one it started
sweep_awaited_never(s) == s.phase # "idle"

\* sync_all_wallets(..).await has returned, with Ok or with Err
sweep_awaited(s) == s.phase = "returned"

\* the sweeps the loops have started after their first ones
sweeps_started ==
    sweep["timer"].round + sweep["ws"].round + sweep["ws2"].round + 1

\* the next turn of a trigger's loop: the sweep it awaited has returned; the
\* timer has slept its interval, or the block stream has yielded its next
\* block.  The handles of the returned sweep are gone.
loop_again(tr) ==
    /\ tr \in enabled
    /\ sweep_awaited(sweep[tr])
    /\ sweeps_started < MaxSweeps
    /\ sweep' = [sweep EXCEPT ![tr] =
                    [NoSweep EXCEPT !.round = sweep[tr].round + 1]]
    /\ task' = [task EXCEPT ![tr] = [w \in Wallets |-> NoTask]]
    /\ UNCHANGED <<oracleVars, scans, world, cfg, wallets, enabled, snapshots,
                   daily, cursor, txRows, runs, head, now>>

\* loop { sync_all_wallets(None).await; sleep(interval).await }
spawn_indexer == loop_again("timer")

\* while let Some(_block) = stream.next().await { sync_all_wallets(..).await }
spawn_ws_listeners == \E tr \in Triggers \ {"timer"} : loop_again(tr)

\* The listener's task ends: subscribe_blocks() failed (before its first
\* sweep), or stream.next() gave None while the task waited for a block.
\* Nothing subscribes again.
stream_ended(tr) ==
    /\ tr \in enabled \ {"timer"}
    /\ \/ sweep[tr].phase = "returned"
       \/ sweep[tr].phase = "idle" /\ sweep[tr].round = 0
    /\ enabled' = enabled \ {tr}
    /\ UNCHANGED <<oracleVars, scans, world, cfg, wallets, sweep, task,
                   snapshots, daily, cursor, txRows, runs, head, now>>

\* ------------------------------------------------------- the environment

\* the clock advances
Tick ==
    /\ now < MaxTime
    /\ now' = now + 1
    /\ UNCHANGED <<oracleVars, scans, world, cfg, wallets, enabled, sweep, task, snapshots, daily,
                   cursor, txRows, runs, head>>

\* the chain produces its next block
NewBlock ==
    /\ head < Len(Heads)
    /\ head' = head + 1
    /\ UNCHANGED <<oracleVars, scans, world, cfg, wallets, enabled, sweep, task, snapshots, daily,
                   cursor, txRows, runs, now>>

\* the wallet's native balance changes on its chain
balance_changes(w) ==
    /\ \E native \in {0, 3} :
         /\ native # world.native[w]
         /\ world' = [world EXCEPT !.native[w] = native]
    /\ UNCHANGED <<oracleVars, scans, cfg, wallets, enabled, sweep, task,
                   snapshots, daily, cursor, txRows, runs, head, now>>

\* ------------------------------------------------------ specifications

Days == 0..Day(MaxTime)

Configs ==
    {new(mc, mr, tok, sim) : mc \in 0..MaxConcurrency, mr \in 0..MaxRetries,
                             tok \in BOOLEAN, sim \in BOOLEAN}

\* the symbols the service asks prices for
PriceSymbols == {"ETH", "BNB", "USDC", "DAI"}

\* the price of a symbol while the oracle answers
OraclePrice(symbol) ==
    IF symbol = "ETH" THEN 2 ELSE IF symbol = "BNB" THEN 3 ELSE 1

\* a world without failures: every wallet on chain 1 with a native balance,
\* USDC held, no DAI
CalmWorld ==
    [chain_id |-> [w \in Wallets |-> 1],
     native |-> [w \in Wallets |-> 3],
     token_amount |-> [s \in PriceSymbols |-> IF s = "DAI" THEN 0 ELSE 5],
     call_fails |-> {},
     price |-> [s \in PriceSymbols |-> Ok(OraclePrice(s))]]

\* the worlds of the valuation scenario: the chain of the wallet, its native
\* balance, the USDC balance, the tokens whose balance query fails and the
\* symbols the oracle has no price for
Worlds ==
    {[chain_id |-> [w \in Wallets |-> chain_id],
      native |-> [w \in Wallets |-> native],
      token_amount |-> [s \in PriceSymbols |-> IF s = "USDC" THEN usdc ELSE 5],
      call_fails |-> call_fails,
      price |-> [s \in PriceSymbols |->
                    IF s \in price_fails THEN Err ELSE Ok(OraclePrice(s))]] :
        chain_id \in {1, 56}, native \in {0, 3}, usdc \in {0, 5},
        call_fails \in SUBSET {"USDC"},
        price_fails \in {{}, {"ETH"}, {"USDC"}}}

NoDaily == [row |-> FALSE]

\* no price_usd call is made through the composed oracle
OracleIdle ==
    /\ price_cache = [s \in CacheSymbols |-> NoEntry]
    /\ price_history = [s \in CacheSymbols |-> <<>>]
    /\ lookup = [c \in Callers |-> NoLookup]
    /\ ocfg = cached_new(DefaultCacheTtl)
    /\ coingecko = CoingeckoPriceOracle_new(DefaultCacheTtl)

\* the tables empty, no sweep started
InitTables ==
    /\ OracleIdle
    /\ sweep = [tr \in Triggers |-> NoSweep]
    /\ task = [tr \in Triggers |-> [w \in Wallets |-> NoTask]]
    /\ snapshots = [w \in Wallets |-> <<>>]
    /\ daily = [w \in Wallets |-> [d \in Days |-> NoDaily]]
    /\ cursor = [w \in Wallets |-> NoRow]
    /\ txRows = <<>>
    /\ runs = [w \in Wallets |-> <<>>]
    /\ head = 1
    /\ now = 0

InitStores ==
    /\ scans = NoHistory
    /\ InitTables

\* One timer sweep over all the wallets, on a chain without configured
\* tokens, while the clock and the chain stand still.
Init ==
    /\ cfg \in {c \in Configs : ~c.has_tokens /\ ~c.simulation}
    /\ wallets = [i \in 1..NWallets |-> i]
    /\ enabled = {"timer"}
    /\ world = CalmWorld
    /\ InitStores

Next ==
    \/ \E tr \in Triggers : sync_all_wallets_start(tr)
    \/ \E tr \in Triggers : sync_all_wallets_spawn(tr)
    \/ \E tr \in Triggers : sync_all_wallets_join(tr)
    \/ \E tr \in Triggers, w \in Wallets : retry_backoff(tr, w)
    \/ \E tr \in Triggers, w \in Wallets : sync_wallet_guard(tr, w)
    \/ \E tr \in Triggers, w \in Wallets : sync_wallet_fetch(tr, w)
    \/ \E tr \in Triggers, w \in Wallets : sync_wallet_insert_snapshot(tr, w)
    \/ \E tr \in Triggers, w \in Wallets : sync_wallet_daily(tr, w)
    \/ \E tr \in Triggers, w \in Wallets : sync_transactions_read(tr, w)
    \/ \E tr \in Triggers, w \in Wallets : sync_transactions_cursor(tr, w)

Spec == Init /\ [][Next]_vars

\* A timer sweep over two wallets, with limits configured from 0 to 2,
\* when every await of it completes: a permit that is free is acquired, a
\* sync_wallet attempt and a backoff sleep end, a finished task is joined.
InitFair ==
    /\ cfg \in {new(mc, mr, FALSE, FALSE) : mc \in {0, 1, 2}, mr \in {0, 1, 2}}
    /\ wallets = <<1, 2>>
    /\ enabled = {"timer"}
    /\ world = CalmWorld
    /\ InitStores

SpecFair == InitFair /\ [][Next]_vars /\ WF_vars(Next)

\* A timer sweep and a websocket-triggered sweep of the same wallet, without
\* retries, on a chain with configured tokens, while the clock advances and
\* the chain grows.
InitOverlap ==
    /\ cfg = new(1, 1, TRUE, FALSE)
    /\ wallets = <<1>>
    /\ enabled = OneChain
    /\ world = CalmWorld
    /\ InitStores

NextOverlap ==
    \/ \E tr \in Triggers : sync_all_wallets_start(tr)
    \/ \E tr \in Triggers : sync_all_wallets_spawn(tr)
    \/ \E tr \in Triggers : sync_all_wallets_join(tr)
    \/ \E tr \in Triggers, w \in Wallets : sync_wallet_guard(tr, w)
    \/ \E tr \in Triggers, w \in Wallets : sync_wallet_fetch(tr, w)
    \/ \E tr \in Triggers, w \in Wallets : sync_wallet_insert_snapshot(tr, w)
    \/ \E tr \in Triggers, w \in Wallets : sync_wallet_daily(tr, w)
    \/ \E tr \in Triggers, w \in Wallets : sync_transactions_read(tr, w)
    \/ \E tr \in Triggers, w \in Wallets : sync_transactions_logs(tr, w)
    \/ \E tr \in Triggers, w \in Wallets : sync_transactions_insert(tr, w)
    \/ \E tr \in Triggers, w \in Wallets : sync_transactions_cursor(tr, w)
    \/ Tick
    \/ NewBlock

SpecOverlap == InitOverlap /\ [][NextOverlap]_vars

\* One timer sweep of a single wallet, with retries, on a chain with
\* configured tokens, while the clock advances and the chain grows.
InitWallet ==
    /\ cfg \in {c \in Configs :
                  c.max_concurrency = 1 /\ c.has_tokens /\ ~c.simulation}
    /\ wallets = <<1>>
    /\ enabled = {"timer"}
    /\ world = CalmWorld
    /\ InitStores

NextWallet ==
    \/ NextOverlap
    \/ \E tr \in Triggers, w \in Wallets : retry_backoff(tr, w)

SpecWallet == InitWallet /\ [][NextWallet]_vars

\* One timer sweep of a single wallet, with retries, in every world of the
\* valuation scenario, while the clock and the chain stand still.
InitValue ==
    /\ cfg \in {c \in Configs : c.max_concurrency = 1}
    /\ wallets = <<1>>
    /\ enabled = {"timer"}
    /\ world \in Worlds
    /\ InitStores

NextValue ==
    \/ Next
    \/ \E tr \in Triggers, w \in Wallets : sync_transactions_logs(tr, w)
    \/ \E tr \in Triggers, w \in Wallets : sync_transactions_insert(tr, w)

SpecValue == InitValue /\ [][NextValue]_vars

\* A timer sweep and a websocket-triggered sweep of the same wallet, with
\* retries, on a chain without configured tokens, while the clock and the
\* chain stand still.
InitRuns ==
    /\ cfg \in {c \in Configs :
                  c.max_concurrency = 1 /\ ~c.has_tokens /\ ~c.simulation}
    /\ wallets = <<1>>
    /\ enabled = OneChain
    /\ world = CalmWorld
    /\ InitStores

SpecRuns == InitRuns /\ [][Next]_vars

\* The same two sweeps, with one retry and no tokens configured, while the
\* wallet's balance changes.
InitDaily ==
    /\ cfg = new(1, 2, FALSE, FALSE)
    /\ wallets = <<1>>
    /\ enabled = OneChain
    /\ world = CalmWorld
    /\ InitStores

NextDaily ==
    \/ Next
    \/ \E w \in Wallets : balance_changes(w)

SpecDaily == InitDaily /\ [][NextDaily]_vars

\* A timer sweep and a websocket-triggered sweep over the same two wallets,
\* with one permit each and without retries.
InitBound ==
    /\ cfg = new(1, 1, FALSE, FALSE)
    /\ wallets = <<1, 2>>
    /\ enabled = OneChain
    /\ world = CalmWorld
    /\ InitStores

NextBound ==
    \/ \E tr \in Triggers : sync_all_wallets_start(tr)
    \/ \E tr \in Triggers : sync_all_wallets_spawn(tr)
    \/ \E tr \in Triggers : sync_all_wallets_join(tr)
    \/ \E tr \in Triggers, w \in Wallets : sync_wallet_guard(tr, w)
    \/ \E tr \in Triggers, w \in Wallets : sync_wallet_fetch(tr, w)
    \/ \E tr \in Triggers, w \in Wallets : sync_wallet_insert_snapshot(tr, w)
    \/ \E tr \in Triggers, w \in Wallets : sync_wallet_daily(tr, w)
    \/ \E tr \in Triggers, w \in Wallets : sync_transactions_read(tr, w)
    \/ \E tr \in Triggers, w \in Wallets : sync_transactions_cursor(tr, w)

SpecBound == InitBound /\ [][NextBound]_vars

\* the positions of wallet 1 in the calm world
SyncedPositions ==
    <<[asset_symbol |-> "ETH", amount |-> 3, usd_value |-> 6],
      [asset_symbol |-> "USDC", amount |-> 5, usd_value |-> 5]>>

\* the tables as an earlier run of the process left them: wallet 1 synced
\* once, at time 0 and at the first chain head, its scan having found no
\* transfer; no sweep started
SyncedTables ==
    /\ OracleIdle
    /\ sweep = [tr \in Triggers |-> NoSweep]
    /\ task = [tr \in Triggers |-> [w \in Wallets |-> NoTask]]
    /\ snapshots = [w \in Wallets |->
                       IF w = 1
                       THEN <<[timestamp |-> 0, positions |-> SyncedPositions,
                               total_usd_value |-> 11]>>
                       ELSE <<>>]
    /\ daily = [w \in Wallets |-> [d \in Days |->
                   IF w = 1 /\ d = 0
                   THEN [row |-> TRUE, positions |-> SyncedPositions,
                         total_usd_value |-> 11]
                   ELSE NoDaily]]
    /\ cursor = [w \in Wallets |->
                    IF w = 1
                    THEN update_last_tx_block(
                             update_last_daily_snapshot(NoRow, 0), Heads[1])
                    ELSE NoRow]
    /\ txRows = <<>>
    /\ runs = [w \in Wallets |->
                  IF w = 1 THEN <<[status |-> "ok", error |-> "none"]>>
                  ELSE <<>>]
    /\ head = 1
    /\ now = 0

\* The timer's sweeps of a single wallet, one after another, without retries
\* and with the freshness guard switched off (snapshot_min_interval = 0), on
\* a chain with configured tokens, while the chain grows and the clock
\* stands still; the process starts on empty tables or on those of an
\* earlier run; the history of the scans is kept.
InitScans ==
    /\ cfg = [new(1, 1, TRUE, FALSE) EXCEPT !.snapshot_min_interval = 0]
    /\ wallets = <<1>>
    /\ enabled = {"timer"}
    /\ world = CalmWorld
    /\ scans = History
    /\ \/ InitTables
       \/ SyncedTables

NextScans ==
    \/ \E tr \in Triggers : sync_all_wallets_start(tr)
    \/ \E tr \in Triggers : sync_all_wallets_spawn(tr)
    \/ \E tr \in Triggers : sync_all_wallets_join(tr)
    \/ \E tr \in Triggers, w \in Wallets : sync_wallet_guard(tr, w)
    \/ \E tr \in Triggers, w \in Wallets : sync_wallet_fetch(tr, w)
    \/ \E tr \in Triggers, w \in Wallets : sync_wallet_insert_snapshot(tr, w)
    \/ \E tr \in Triggers, w \in Wallets : sync_wallet_daily(tr, w)
    \/ \E tr \in Triggers, w \in Wallets : sync_transactions_read(tr, w)
    \/ \E tr \in Triggers, w \in Wallets : sync_transactions_logs(tr, w)
    \/ \E tr \in Triggers, w \in Wallets : sync_transactions_insert(tr, w)
    \/ \E tr \in Triggers, w \in Wallets : sync_transactions_cursor(tr, w)
    \/ spawn_indexer
    \/ NewBlock

SpecScans == InitScans /\ [][NextScans]_vars

\* The timer's loop and the listeners' loops of two chains (1 and 56), sweep
\* after sweep, with a single wallet, on chain 1, without retries and
\* without configured tokens, while the clock and the chains stand still.
InitLoops ==
    /\ cfg = new(1, 1, FALSE, FALSE)
    /\ wallets = <<1>>
    /\ enabled = Triggers
    /\ world = CalmWorld
    /\ InitStores

NextLoops ==
    \/ \E tr \in Triggers : sync_all_wallets_start(tr)
    \/ \E tr \in Triggers : sync_all_wallets_spawn(tr)
    \/ \E tr \in Triggers : sync_all_wallets_join(tr)
    \/ \E tr \in Triggers, w \in Wallets : sync_wallet_guard(tr, w)
    \/ \E tr \in Triggers, w \in Wallets : sync_wallet_fetch(tr, w)
    \/ \E tr \in Triggers, w \in Wallets : sync_wallet_insert_snapshot(tr, w)
    \/ \E tr \in Triggers, w \in Wallets : sync_wallet_daily(tr, w)
    \/ \E tr \in Triggers, w \in Wallets : sync_transactions_read(tr, w)
    \/ \E tr \in Triggers, w \in Wallets : sync_transactions_cursor(tr, w)
    \/ spawn_indexer
    \/ spawn_ws_listeners

SpecLoops == InitLoops /\ [][NextLoops]_vars

\* The same loops, whose listeners' block streams can end.
NextStreams ==
    \/ NextLoops
    \/ \E tr \in Triggers : stream_ended(tr)

SpecStreams == InitLoops /\ [][NextStreams]_vars

\* the entries the cache can hold for ETH when the calls start: none, one
\* that expires at this very second, a live one, and a live one without a
\* usable price
InitEntries ==
    {NoEntry,
     [row |-> TRUE, price |-> 5, expires_at |-> 0],
     [row |-> TRUE, price |-> 5, expires_at |-> DefaultCacheTtl],
     [row |-> TRUE, price |-> 0, expires_at |-> DefaultCacheTtl]}

\* The callers of the composed oracle make their price_usd calls one after
\* another, each call one await at a time, over a pre-populated cache, within
\* one second of the clock.
InitOracle ==
    /\ price_cache \in {[s \in CacheSymbols |-> IF s = "ETH" THEN e ELSE NoEntry] :
                            e \in InitEntries}
    /\ price_history = [s \in CacheSymbols |-> <<>>]
    /\ lookup = [c \in Callers |-> NoLookup]
    /\ ocfg \in {cached_new(ttl) : ttl \in {0}}
    /\ coingecko = CoingeckoPriceOracle_new(DefaultCacheTtl)
    /\ cfg = new(1, 1, FALSE, FALSE)
    /\ wallets = <<>>
    /\ enabled = {}
    /\ world = CalmWorld
    /\ sweep = [tr \in Triggers |-> NoSweep]
    /\ task = [tr \in Triggers |-> [w \in Wallets |-> NoTask]]
    /\ snapshots = [w \in Wallets |-> <<>>]
    /\ daily = [w \in Wallets |-> [d \in Days |-> NoDaily]]
    /\ cursor = [w \in Wallets |-> NoRow]
    /\ txRows = <<>>
    /\ runs = [w \in Wallets |-> <<>>]
    /\ scans = NoHistory
    /\ head = 1
    /\ now = 0

NextOracle ==
    \/ \E c \in Callers : cache_get(c)
    \/ \E c \in Callers : fallback_primary(c)
    \/ \E c \in Callers : fallback_fallback(c)
    \/ \E c \in Callers : recording_lookup(c)
    \/ \E c \in Callers : recording_persist(c)
    \/ \E c \in Callers : cache_upsert(c)

SpecOracle == InitOracle /\ [][NextOracle]_vars

\* the seconds at which the clock of the recording scenario is read
OracleTimes == {0, 10, 59, 60, 61, 120}

\* the clock moves on to a later one of these seconds
Elapse ==
    /\ \E t \in OracleTimes : t > now /\ now' = t
    /\ UNCHANGED <<oracleVars, scans, world, cfg, wallets, enabled, sweep,
                   task, snapshots, daily, cursor, txRows, runs, head>>

\* One caller makes its price_usd calls one after another through the
\* composed oracle, each call one await at a time, over an empty cache with
\* the shortest TTL and an empty history, while the clock moves on.
InitRecord ==
    /\ price_cache = [s \in CacheSymbols |-> NoEntry]
    /\ price_history = [s \in CacheSymbols |-> <<>>]
    /\ lookup = [c \in Callers |-> NoLookup]
    /\ ocfg = cached_new(0)
    /\ coingecko = CoingeckoPriceOracle_new(DefaultCacheTtl)
    /\ cfg = new(1, 1, FALSE, FALSE)
    /\ wallets = <<>>
    /\ enabled = {}
    /\ world = CalmWorld
    /\ sweep = [tr \in Triggers |-> NoSweep]
    /\ task = [tr \in Triggers |-> [w \in Wallets |-> NoTask]]
    /\ snapshots = [w \in Wallets |-> <<>>]
    /\ daily = [w \in Wallets |-> [d \in Days |-> NoDaily]]
    /\ cursor = [w \in Wallets |-> NoRow]
    /\ txRows = <<>>
    /\ runs = [w \in Wallets |-> <<>>]
    /\ scans = NoHistory
    /\ head = 1
    /\ now = 0

NextRecord ==
    \/ cache_get("sync")
    \/ fallback_primary("sync")
    \/ fallback_fallback("sync")
    \/ recording_lookup("sync")
    \/ recording_persist("sync")
    \/ cache_upsert("sync")
    \/ Elapse

SpecRecord == InitRecord /\ [][NextRecord]_vars

\* The callers make their price_usd calls on the primary provider, each
\* caller one after another and one await at a time, starting with an
\* empty in-process cache, while the clock moves on.
InitPrimary ==
    /\ cfg = new(1, 1, FALSE, FALSE)
    /\ wallets = <<>>
    /\ enabled = {}
    /\ world = CalmWorld
    /\ InitStores

NextPrimary ==
    \/ \E c \in Callers : coingecko_cached(c)
    \/ \E c \in Callers : coingecko_response(c)
    \/ Elapse

SpecPrimary == InitPrimary /\ [][NextPrimary]_vars

\* ------------------------------------------------------------ properties

Tasks == Triggers \X Wallets

Listed(tr) == {sweep[tr].list[i] : i \in 1..Len(sweep[tr].list)}

\* the wallets of the sweep whose handle has been joined
Joined(tr) == {sweep[tr].list[i] : i \in 1..(sweep[tr].joined - 1)}

\* C1: within a sweep the tasks that have started and not finished never
\* outnumber max_concurrency; every such task holds one permit from its
\* spawn to the end of its retry loop (attempts and backoff sleeps alike),
\* so the free permits are max_concurrency minus the tasks in flight.
C1_BoundedConcurrency ==
    \A tr \in Triggers :
        sweep[tr].phase = "running" =>
            /\ Cardinality(Running(tr)) <= cfg.max_concurrency
            /\ sweep[tr].permits = cfg.max_concurrency - Cardinality(Running(tr))

\* the semaphore is exhausted by tasks of which one sleeps in its backoff,
\* while a wallet still waits to be spawned
C1_Witness ==
    \E tr \in Triggers :
        /\ sweep[tr].phase = "running"
        /\ Cardinality(Running(tr)) = cfg.max_concurrency
        /\ sweep[tr].next <= Len(sweep[tr].list)
        /\ \E w \in Running(tr) : task[tr][w].pc = "backoff"

C3_SweepIsolation ==
    \A tr \in Triggers :
        /\ sweep[tr].ret = "err" => sweep[tr].list = <<>>
        /\ sweep[tr].phase = "running" => ENABLED Next
        /\ sweep[tr].ret = "ok" =>
               \A w \in Listed(tr) :
                   /\ task[tr][w].pc = "done"
                   /\ task[tr][w].attempt >= 1
                   /\ Len(runs[w]) = 1

\* the sweep returned Ok although its first wallet used up its retries; the
\* second wallet was synced and its snapshot persisted
C3_Witness ==
    \E tr \in Triggers :
        /\ sweep[tr].ret = "ok"
        /\ Len(sweep[tr].list) >= 2
        /\ task[tr][sweep[tr].list[1]].result = "err"
        /\ task[tr][sweep[tr].list[2]].result = "ok"
        /\ task[tr][sweep[tr].list[2]].snaps = 1
        /\ Len(snapshots[sweep[tr].list[2]]) = 1

\* C4: last_tx_block of a wallet never decreases, whatever scans run and
\* however they overlap.
C4_CursorMonotone ==
    [][\A w \in Wallets :
          (cursor[w].row /\ cursor'[w].row) =>
              cursor'[w].last_tx_block >= cursor[w].last_tx_block]_vars

\* the step in which a task's sync_wallet call starts: its freshness guard
GuardStep(tr, w) ==
    task[tr][w].pc = "loop" /\ task'[tr][w].pc # "loop"

C6_IdempotentInsert ==
    /\ [](\A i, j \in 1..Len(txRows) :
            SameKey(txRows[i], txRows[j]) => i = j)
    /\ [][\A i \in 1..Len(txRows) :
            Len(txRows') >= i /\ txRows'[i] = txRows[i]]_vars
    /\ [][\A tr \in Triggers, w \in Wallets :
            (task[tr][w].pc = "tx_insert" /\ task'[tr][w].pc = "tx_cursor")
            => \A i \in 1..Len(task[tr][w].txs) :
                 \E j \in 1..Len(txRows') :
                     SameKey(txRows'[j], task[tr][w].txs[i])]_vars

\* a batch was inserted that holds one key twice (the self-transfer) and a
\* key stored by an earlier batch with another value, which was kept
C6_Witness ==
    \E tr \in Triggers, w \in Wallets :
        LET t == task[tr][w] IN
        /\ t.pc = "tx_cursor" /\ t.inserted
        /\ \E i, j \in 1..Len(t.txs) : i < j /\ SameKey(t.txs[i], t.txs[j])
        /\ \E i \in 1..Len(t.txs), k \in 1..Len(txRows) :
             /\ SameKey(t.txs[i], txRows[k])
             /\ txRows[k].usd_value # t.txs[i].usd_value

\* C7: a sync_wallet call is in transaction indexing only after it inserted
\* its snapshot; a scan that found transactions reaches its cursor write
\* only after its batch insert, with every key of the batch stored; and
\* update_last_tx_block is called only from that point of a scan.
C7_SyncOrder ==
    /\ [](\A tr \in Triggers, w \in Wallets :
            LET t == task[tr][w] IN
            /\ t.pc \in {"tx_read", "tx_logs", "tx_insert", "tx_cursor"} =>
                 /\ t.snap
                 /\ \E i \in 1..Len(snapshots[w]) :
                        snapshots[w][i].timestamp = t.timestamp
            /\ (t.pc = "tx_cursor" /\ t.scan = "found") =>
                 /\ t.inserted
                 /\ \A i \in 1..Len(t.txs) :
                      \E j \in 1..Len(txRows) : SameKey(txRows[j], t.txs[i]))
    /\ [][\A tr \in Triggers, w \in Wallets :
            (task[tr][w].cursor_write = "none"
                /\ task'[tr][w].cursor_write # "none")
            => /\ task[tr][w].pc = "tx_cursor"
               /\ task[tr][w].snap
               /\ (task[tr][w].scan = "found" => task[tr][w].inserted)]_vars
    /\ [][\A w \in Wallets :
            (cursor'[w].row /\ cursor[w].row
                /\ cursor'[w].last_tx_block # cursor[w].last_tx_block)
            => \E tr \in Triggers : task[tr][w].pc = "tx_cursor"]_vars

\* a sync has ended whose scan found transactions, inserted them and then
\* wrote the cursor
C7_Witness ==
    \E tr \in Triggers, w \in Wallets :
        /\ task[tr][w].pc = "done" /\ task[tr][w].scan = "found"
        /\ task[tr][w].cursor_write = "ok" /\ task[tr][w].snaps = 1
        /\ Len(txRows) > 0 /\ Len(snapshots[w]) > 0
        /\ cursor[w].row /\ cursor[w].last_tx_block > 0

C9_BackfillWithoutCursor ==
    [][\A tr \in Triggers, w \in Wallets :
          (/\ task[tr][w].pc = "tx_read"
           /\ ~cursor[w].row
           /\ task'[tr][w].pc \in {"tx_logs", "tx_cursor"})
          => /\ task'[tr][w].pc = "tx_logs"
             /\ task'[tr][w].start_block =
                    Max(task[tr][w].latest_block - BackfillWindow, 0)]_vars

CacheGetStep(c) ==
    lookup[c].pc \in {"idle", "done"} /\ lookup'[c] # lookup[c]

\* C11: through the Fallback layer, a primary price > 0 is the result and
\* the fallback (static) provider is not asked; when the primary provider
\* errors and the fallback provider returns p > 0, the result is p.
C11_FallbackOrder ==
    /\ [](\A c \in Callers :
            LET l == lookup[c] IN
            l.pc \in {"record", "upsert"} =>
                /\ (l.primary.ok /\ l.primary.price > 0) =>
                       (l.price = l.primary.price /\ l.fallback_calls = 0)
                /\ (~l.primary.ok) =>
                       /\ l.fallback_calls = 1
                       /\ l.fallback.ok /\ l.fallback.price > 0
                       /\ l.price = l.fallback.price)
    /\ [][\A c \in Callers :
            (/\ lookup[c].pc = "primary"
             /\ lookup'[c].pc # "primary"
             /\ lookup'[c].primary.ok /\ lookup'[c].primary.price > 0)
            => /\ lookup'[c].pc = "record"
               /\ lookup'[c].price = lookup'[c].primary.price
               /\ lookup'[c].fallback_calls = 0]_vars
    /\ [][\A c \in Callers :
            (lookup[c].pc = "record" /\ lookup'[c].pc # "record")
            => /\ lookup'[c].price = lookup[c].price
               /\ lookup'[c].fallback_calls = lookup[c].fallback_calls]_vars

\* the Fallback layer has answered two calls: one with the primary's price,
\* the fallback provider not asked, one with the fallback provider's price
\* after an error of the primary
C11_Witness ==
    \E c1, c2 \in Callers :
        /\ lookup[c1].pc = "record" /\ lookup[c1].primary = Ok(3)
        /\ lookup[c1].price = 3 /\ lookup[c1].fallback_calls = 0
        /\ lookup[c2].pc = "record" /\ lookup[c2].primary = Err
        /\ lookup[c2].fallback = Ok(2) /\ lookup[c2].price = 2

\* C12: the Fallback layer never returns a price <= 0: a primary answer
\* <= 0 leads to the fallback provider just as a primary error does, and
\* when the fallback provider errors or answers <= 0 the call ends in an
\* error.
C12_NoZeroPrice ==
    /\ [](\A c \in Callers :
            LET l == lookup[c] IN
            /\ l.pc \in {"record", "upsert"} => l.price > 0
            /\ l.pc = "fallback" =>
                   /\ ~(l.primary.ok /\ l.primary.price > 0)
                   /\ l.primary_calls = 1 /\ l.fallback_calls = 0
            /\ (l.pc = "done" /\ l.result = "ok") => l.ret > 0
            /\ (l.pc = "done" /\ l.result = "err") =>
                   (l.primary_calls = 1 /\ l.fallback_calls = 1))
    /\ [][\A c \in Callers :
            (/\ lookup[c].pc = "primary"
             /\ lookup'[c].pc # "primary"
             /\ ~(lookup'[c].primary.ok /\ lookup'[c].primary.price > 0))
            => lookup'[c].pc = "fallback"]_vars
    /\ [][\A c \in Callers :
            (lookup[c].pc = "fallback" /\ lookup'[c].pc # "fallback")
            => \/ /\ lookup'[c].pc = "record"
                  /\ lookup'[c].fallback.ok /\ lookup'[c].fallback.price > 0
                  /\ lookup'[c].price = lookup'[c].fallback.price
               \/ /\ lookup'[c].pc = "done"
                  /\ lookup'[c].result = "err"
                  /\ price_cache' = price_cache]_vars

\* one call, whose primary answered 0, is about to ask the fallback
\* provider; another has ended in an error after both providers were asked
C12_Witness ==
    \E c1, c2 \in Callers :
        /\ lookup[c1].pc = "fallback" /\ lookup[c1].primary = Ok(0)
        /\ lookup[c2].pc = "done" /\ lookup[c2].result = "err"
        /\ lookup[c2].fallback_calls = 1

C14_CachedUntilExpiry ==
    \A c \in Callers :
        (lookup[c].pc = "done" /\ lookup[c].cached # "err") =>
            \A p \in lookup[c].promised :
                /\ lookup[c].result = "ok" /\ lookup[c].ret = p
                /\ lookup[c].primary_calls = 0

\* C14, amended: a call that does not read a live entry with price > 0 asks
\* the wrapped oracle once; when that gives p it calls upsert_price with p
\* and expiry now + TTL, TTL >= 10, and returns p whether or not the write
\* succeeds; a successful write leaves the entry (p, now + TTL), only such a
\* write changes an entry, and a call that reads a live entry returns the
\* price of that entry without asking the wrapped oracle.
C14_RefreshOnMiss ==
    /\ [](ocfg.ttl >= MinCacheTtl)
    /\ [](\A c \in Callers :
            LET l == lookup[c] IN
            /\ l.primary_calls <= 1 /\ l.fallback_calls <= 1
            /\ l.cache_writes <= 1
            /\ l.pc \in {"primary", "fallback", "record", "upsert"} =>
                   l.cached \in {"miss", "unusable", "err"}
            /\ (l.pc = "done" /\ l.cached # "hit" /\ l.result = "ok") =>
                   (l.primary_calls = 1 /\ l.cache_writes = 1))
    /\ [][\A c \in Callers :
            LET entry == price_cache[lookup'[c].symbol] IN
            CacheGetStep(c) =>
                /\ lookup'[c].cached = "miss" =>
                       ~(entry.row /\ entry.expires_at > now)
                /\ lookup'[c].cached = "unusable" =>
                       (entry.row /\ entry.expires_at > now /\ entry.price <= 0)
                /\ lookup'[c].cached = "hit" =>
                       /\ entry.row /\ entry.expires_at > now
                       /\ lookup'[c].ret = entry.price
                       /\ lookup'[c].primary_calls = 0
                /\ lookup'[c].cached # "hit" => lookup'[c].pc = "primary"]_vars
    /\ [][\A c \in Callers :
            (lookup[c].pc = "upsert" /\ lookup'[c].pc = "done")
            => /\ lookup'[c].result = "ok"
               /\ lookup'[c].ret = lookup[c].price
               /\ lookup'[c].expires_at = now + ocfg.ttl
               /\ lookup'[c].wrote =>
                     price_cache'[lookup[c].symbol] =
                        [row |-> TRUE, price |-> lookup[c].price,
                         expires_at |-> now + ocfg.ttl]
               /\ ~lookup'[c].wrote => price_cache' = price_cache]_vars
    /\ [][\A s \in CacheSymbols :
            price_cache'[s] # price_cache[s] =>
                \E c \in Callers :
                    /\ lookup[c].pc = "upsert" /\ lookup[c].symbol = s
                    /\ lookup'[c].wrote]_vars

\* a call missed the cache (the entry had expired), got 3 from the wrapped
\* oracle and upserted it with a TTL of 10 s; the other caller's call then
\* hit that entry
C14_Witness ==
    \E c1, c2 \in Callers :
        /\ lookup[c1].pc = "done" /\ lookup[c1].cached = "miss"
        /\ lookup[c1].wrote /\ lookup[c1].ret = 3
        /\ price_cache["ETH"] = [row |-> TRUE, price |-> 3, expires_at |-> 10]
        /\ lookup[c2].pc = "done" /\ lookup[c2].cached = "hit"
        /\ lookup[c2].ret = 3 /\ lookup[c2].promised = {3}

\* C15: every stored snapshot, and every daily snapshot row, has
\* total_usd_value equal to the sum of usd_value over the positions stored in
\* it, and a daily row holds the positions and total of a snapshot of its
\* wallet; with no tokens configured (and simulation mode off) a native
\* amount a > 0 valued at the price p the oracle gave for the native balance
\* yields the single position (native symbol, a, a*p) and total a*p.
C15_TotalIsSum ==
    \A w \in Wallets :
        /\ \A i \in 1..Len(snapshots[w]) :
               LET snapshot == snapshots[w][i]
                   a == world.native[w]
                   p == world.price[native_price_symbol(world.chain_id[w])].price
               IN  /\ snapshot.total_usd_value = sum_usd_value(snapshot.positions)
                   /\ (~cfg.has_tokens /\ ~cfg.simulation /\ a > 0) =>
                          /\ snapshot.positions =
                                 <<[asset_symbol |-> native_symbol(world.chain_id[w]),
                                    amount |-> a, usd_value |-> a * p]>>
                          /\ snapshot.total_usd_value = a * p
        /\ \A d \in Days :
               daily[w][d].row =>
                   /\ daily[w][d].total_usd_value =
                          sum_usd_value(daily[w][d].positions)
                   /\ \E i \in 1..Len(snapshots[w]) :
                          /\ snapshots[w][i].positions = daily[w][d].positions
                          /\ snapshots[w][i].total_usd_value =
                                 daily[w][d].total_usd_value
                          /\ Day(snapshots[w][i].timestamp) = d

\* a wallet on chain 1 with 3 ETH at price 2 and no tokens has a snapshot and
\* a daily row with the single position (ETH, 3, 6) and total 6
C15_Witness ==
    \E w \in Wallets :
        /\ ~cfg.has_tokens /\ ~cfg.simulation /\ world.chain_id[w] = 1
        /\ Len(snapshots[w]) >= 1
        /\ snapshots[w][1].positions =
               <<[asset_symbol |-> "ETH", amount |-> 3, usd_value |-> 6]>>
        /\ snapshots[w][1].total_usd_value = 6
        /\ \E d \in Days : daily[w][d].row /\ daily[w][d].total_usd_value = 6

C16_WitnessSkip ==
    \E tr1, tr2 \in Triggers, w \in Wallets :
        /\ task[tr1][w].pc = "done" /\ task[tr1][w].attempt = 2
        /\ task[tr1][w].snaps = 1
        /\ task[tr2][w].pc = "done" /\ task[tr2][w].result = "ok"
        /\ task[tr2][w].snaps = 0 /\ task[tr2][w].attempt = 1
        /\ runs[w] = <<[status |-> "ok", error |-> "none"],
                       [status |-> "ok", error |-> "none"]>>

\* C17: an attempt in which the oracle gave no price for the native balance,
\* or for a token held with a non-zero amount, has failed: it persists no
\* snapshot, and the task sleeps before a retry (or is about to start it)
\* or, its attempts used up, has ended with the error.
C17_PriceFailureFails ==
    \A tr \in Triggers, w \in Wallets :
        LET t == task[tr][w] IN
        (t.native_price_err \/ t.token_price_errs # {}) =>
            /\ t.pc \in {"backoff", "loop", "done"}
            /\ t.pc \in {"backoff", "loop"} => t.attempt < cfg.max_retries
            /\ t.pc = "done" =>
                   (t.result = "err" /\ t.attempt = cfg.max_retries)
            /\ t.fails = t.attempt
            /\ ~t.snap /\ snapshots[w] = <<>>

\* the part of C17 that the code keeps: a failed native price lookup fails
\* the attempt
C17_NativePriceFailureFails ==
    \A tr \in Triggers, w \in Wallets :
        LET t == task[tr][w] IN
        t.native_price_err =>
            /\ t.pc \in {"backoff", "loop", "done"}
            /\ t.pc \in {"backoff", "loop"} => t.attempt < cfg.max_retries
            /\ t.pc = "done" =>
                   (t.result = "err" /\ t.attempt = cfg.max_retries)
            /\ t.fails = t.attempt
            /\ ~t.snap /\ snapshots[w] = <<>>

\* C18: the oracle is asked for the price of the native symbol of the
\* wallet's chain (BNB on chain 56), and the native position of every stored
\* snapshot, labelled with that symbol, is worth its amount times that
\* symbol's price.
C18_NativeSymbolPrice ==
    \A tr \in Triggers, w \in Wallets :
        LET t == task[tr][w]
            symbol == native_symbol(world.chain_id[w])
        IN
        /\ t.asked # "none" => t.asked = symbol
        /\ \A i \in 1..Len(snapshots[w]) :
               \A j \in 1..Len(snapshots[w][i].positions) :
                   LET position == snapshots[w][i].positions[j] IN
                   position.asset_symbol = symbol =>
                       position.usd_value =
                           position.amount * world.price[symbol].price

\* the part of C18 that the code keeps: on a chain whose native asset is
\* ETH the native position is worth its amount times the ETH price
C18_EthNativePrice ==
    \A w \in Wallets :
        world.chain_id[w] # 56 =>
            \A i \in 1..Len(snapshots[w]) :
                \A j \in 1..Len(snapshots[w][i].positions) :
                    LET position == snapshots[w][i].positions[j] IN
                    position.asset_symbol = "ETH" =>
                        position.usd_value =
                            position.amount * world.price["ETH"].price

\* the labels of the positions of a snapshot
Labels(positions) ==
    {positions[j].asset_symbol : j \in 1..Len(positions)}

\* C19: in an attempt where the balance query of a token failed, every
\* configured token of the chain was still queried, in order; the positions
\* of the attempt, and of the snapshot it stores, hold no position of that
\* token and hold one for every other token whose query succeeded with a
\* non-zero amount; and the attempt did not fail because of it: if it
\* failed at all, it failed at the snapshot insert.
C19_TokenQuerySkip ==
    \A tr \in Triggers, w \in Wallets :
        LET t == task[tr][w]
            chain_id == world.chain_id[w]
            tokens == tokens_of(chain_id)
            held == {tokens[i] : i \in 1..Len(tokens)}
        IN
        t.skipped # {} =>
            /\ t.skipped = held \cap world.call_fails
            /\ t.queried = tokens
            /\ t.pc \in {"backoff", "loop"} \/ t.result = "err" =>
                   t.err = "insert_snapshot"
            /\ t.pc \in {"insert_snapshot", "daily"} =>
                   \A s \in held :
                       display_symbol(chain_id, s) \in Labels(t.positions)
                           <=> (s \notin t.skipped /\ world.token_amount[s] # 0)
            /\ \A i \in 1..Len(snapshots[w]) :
                   \A s \in held :
                       display_symbol(chain_id, s)
                               \in Labels(snapshots[w][i].positions)
                           <=> (s \notin t.skipped /\ world.token_amount[s] # 0)

\* on chain 1 the USDC balance query failed; DAI was queried after it, and
\* the task ended Ok with a stored snapshot that holds DAI and no USDC
C19_Witness ==
    \E tr \in Triggers, w \in Wallets :
        /\ world.chain_id[w] = 1 /\ world.token_amount["USDC"] = 5
        /\ task[tr][w].skipped = {"USDC"}
        /\ task[tr][w].queried = <<"USDC", "DAI">>
        /\ task[tr][w].pc = "done" /\ task[tr][w].result = "ok"
        /\ task[tr][w].fails = 0
        /\ Len(snapshots[w]) = 1
        /\ "DAI" \in Labels(snapshots[w][1].positions)
        /\ "USDC" \notin Labels(snapshots[w][1].positions)

\* C20: every block above the first value written to a wallet's
\* last_tx_block, up to last_tx_block, lies in the [start_block,
\* latest_block] range of a scan of the wallet whose log queries and batch
\* insert succeeded.
C20_CursorBehindHistory ==
    \A w \in Wallets :
        (cursor[w].row /\ cursor[w].first_tx_block >= 0) =>
            \A b \in (cursor[w].first_tx_block + 1)..cursor[w].last_tx_block :
                \E tr \in Triggers :
                    /\ task[tr][w].scanned.from <= b
                    /\ b <= task[tr][w].scanned.to

\* the scans of a wallet, in the order in which they read the cursor
ScanLog(w) == scans.log[w]

CloseSnapshots(w) ==
    \E i, j \in 1..Len(snapshots[w]) :
        /\ i < j
        /\ snapshots[w][j].timestamp - snapshots[w][i].timestamp
               < cfg.snapshot_min_interval
        /\ snapshots[w][i].timestamp - snapshots[w][j].timestamp
               < cfg.snapshot_min_interval

\* the wallet has a snapshot younger than snapshot_min_interval
FreshSnapshot(w) == within_min_interval(latest_by_wallet(snapshots[w]), now)

\* C22: the freshness guard is read once, when the sync starts: a sync that
\* has passed it can persist its snapshot whatever has been inserted since,
\* also when the wallet by then has a snapshot younger than
\* snapshot_min_interval; where two snapshots of a wallet lie closer together
\* than snapshot_min_interval, the timer-triggered and the
\* websocket-triggered sync have persisted one each.
C22_GuardRace ==
    \A w \in Wallets :
        /\ \A tr \in Triggers :
               task[tr][w].pc = "insert_snapshot" =>
                   ENABLED (/\ sync_wallet_insert_snapshot(tr, w)
                            /\ Len(snapshots'[w]) = Len(snapshots[w]) + 1)
        /\ CloseSnapshots(w) =>
               \A tr \in OneChain : task[tr][w].snaps = 1

\* both syncs passed the guard before either inserted; the second persisted
\* its snapshot while the first one's was fresh, both with the same timestamp
C22_Witness ==
    \E w \in Wallets :
        /\ Len(snapshots[w]) = 2
        /\ snapshots[w][1].timestamp = snapshots[w][2].timestamp
        /\ CloseSnapshots(w) /\ FreshSnapshot(w)
        /\ \A tr \in OneChain :
               /\ task[tr][w].pc = "done" /\ task[tr][w].result = "ok"
               /\ task[tr][w].snaps = 1

\* the triggers with a sync of the wallet in flight
InFlight(w) == {tr \in Triggers : w \in Running(tr)}

\* the timer and the listener of the wallet's chain
OwnTriggers(w) ==
    {"timer"} \cup {tr \in Triggers : chain_filter(tr) = world.chain_id[w]}

\* C23: a trigger's loop starts its next sweep only when the sweep it
\* awaited has returned, and a sweep returns only when none of its tasks is
\* in flight; so the syncs of a wallet in flight at once belong to different
\* triggers, which are the timer and the listener of the wallet's chain: at
\* most two.
C23_SweepsInTurn ==
    /\ [][\A tr \in Triggers :
            sweep'[tr].round # sweep[tr].round =>
                /\ sweep[tr].phase = "returned"
                /\ Running(tr) = {}
                /\ sweep'[tr].round = sweep[tr].round + 1
                /\ sweep'[tr].phase = "idle"]_vars
    /\ [](\A tr \in Triggers :
            sweep[tr].phase # "running" => Running(tr) = {})
    /\ [](\A w \in Wallets :
            /\ InFlight(w) \subseteq OwnTriggers(w)
            /\ Cardinality(InFlight(w)) <= 2)

\* in the timer's second sweep the wallet's sync is in flight together with
\* the one started by its chain's listener, while the other chain's
\* listener has finished a sweep
C23_Witness ==
    \E w \in Wallets :
        /\ sweep["timer"].round = 1
        /\ InFlight(w) = {"timer", "ws"}
        /\ task["timer"][w].pc = "insert_snapshot"
        /\ task["ws"][w].pc = "insert_snapshot"
        /\ sweep["ws2"].phase = "returned"

\* C24: a wallet task inserts at most one snapshot: once an attempt has
\* inserted its snapshot the task is in the rest of that attempt or has
\* ended with success, so no attempt, backoff sleep or failure follows the
\* insert; with the timer as the only trigger the wallet's stored snapshots
\* are those of its task.
C24_OneSnapshotPerTask ==
    \A w \in Wallets :
        LET t == task["timer"][w] IN
        /\ t.snaps <= 1
        /\ Len(snapshots[w]) = t.snaps
        /\ t.snaps = 1 =>
               \/ t.snap /\ t.pc \notin {"loop", "backoff", "fetch",
                                          "insert_snapshot", "done"}
               \/ t.pc = "done" /\ t.result = "ok"
        /\ t.snap => t.snaps = 1

\* after a failed attempt and its backoff sleep a later attempt inserted the
\* snapshot, its transaction indexing failed, and the task ended with
\* success
C24_Witness ==
    \E w \in Wallets :
        LET t == task["timer"][w] IN
        /\ t.pc = "done" /\ t.result = "ok"
        /\ t.fails = 1 /\ t.attempt = 2
        /\ t.tx_err
        /\ t.snaps = 1 /\ Len(snapshots[w]) = 1

\* the scan returned Ok
Succeeded(scan) == scan.exit \in {"early", "no_tokens", "empty", "found"}

\* C25, as claimed: after a scan that returned success the next scan of the
\* wallet starts at that scan's latest_block + 1, so it queries no block
\* of the earlier scan's range.
C25_NextScanStartsAfter ==
    \A w \in Wallets :
        \A i \in 1..Len(ScanLog(w)) :
            (/\ Succeeded(ScanLog(w)[i])
             /\ i < Len(ScanLog(w))
             /\ ScanLog(w)[i + 1].exit # "read_failed") =>
                ScanLog(w)[i + 1].from = ScanLog(w)[i].to + 1

\* C25, amended: after a scan that returned success and whose cursor write
\* succeeded, with a latest_block above 0, the next scan of the wallet
\* (started after it returned, no other scan writing the cursor between
\* them) reads that latest_block as last_tx_block and starts at
\* latest_block + 1, whether the earlier scan left early, found nothing or
\* found transactions; every scan that ends with a cursor write returns
\* success whether or not the write succeeded.
C25_NextScanAfterCursorWrite ==
    /\ [](\A w \in Wallets :
            \A i \in 1..Len(ScanLog(w)) :
                LET scan == ScanLog(w)[i] IN
                /\ scan.wrote => Succeeded(scan)
                /\ (/\ Succeeded(scan) /\ scan.wrote /\ scan.to > 0
                    /\ i < Len(ScanLog(w))
                    /\ ScanLog(w)[i + 1].exit # "read_failed") =>
                       /\ ScanLog(w)[i + 1].last_block = scan.to
                       /\ ScanLog(w)[i + 1].from = scan.to + 1)
    /\ [][\A tr \in Triggers, w \in Wallets :
            (task[tr][w].pc = "tx_cursor" /\ task'[tr][w].pc # "tx_cursor") =>
                /\ task'[tr][w].pc = "done" /\ task'[tr][w].result = "ok"
                /\ \/ cursor'[w] = update_last_tx_block(cursor[w],
                                                       task[tr][w].latest_block)
                   \/ cursor'[w] = cursor[w]]_vars

\* a backfill scan of [0, 2] found a transfer and moved the cursor to 2; the
\* next scan started at 3 and ran to the new head
C25_Witness ==
    \E w \in Wallets :
        /\ Len(ScanLog(w)) = 2
        /\ ScanLog(w)[1] = [tr |-> "timer", from |-> 0, to |-> 2,
                            last_block |-> 0, exit |-> "found",
                            wrote |-> TRUE]
        /\ ScanLog(w)[2].from = 3
        /\ ScanLog(w)[2].to = BackfillWindow + 1
        /\ ScanLog(w)[2].last_block = 2
        /\ ScanLog(w)[2].exit = "found"

\* the step of a sync_wallet call that reads a fresh latest snapshot
SkipStep(tr, w) ==
    /\ GuardStep(tr, w)
    /\ within_min_interval(latest_by_wallet(snapshots[w]), now)
    /\ task'[tr][w].fails = task[tr][w].fails

\* C26: the step of a sync skipped by the freshness guard ends the call
\* with success and leaves the snapshots, the daily snapshots, the
\* transaction rows, the cursor rows, the price cache and the price history
\* as they were; the call made no balance query, no price lookup and no log
\* query, and started no scan.
C26_SkipChangesNothing ==
    [][\A tr \in Triggers, w \in Wallets :
         SkipStep(tr, w) =>
             /\ task'[tr][w].pc = "done" /\ task'[tr][w].result = "ok"
             /\ snapshots' = snapshots /\ daily' = daily
             /\ txRows' = txRows /\ cursor' = cursor
             /\ price_cache' = price_cache /\ price_history' = price_history
             /\ scans' = scans /\ runs' = runs
             /\ task'[tr][w].asked = "none"
             /\ task'[tr][w].queried = <<>>
             /\ task'[tr][w].log_queries = 0
             /\ task'[tr][w].scan = "none"
             /\ task'[tr][w].cursor_write = "none"
             /\ task'[tr][w].snaps = task[tr][w].snaps]_vars

\* the listener's sync of the wallet was skipped because the timer's sync
\* had just stored a snapshot: it ended with success at its first attempt
\* without a lookup, and the tables hold what the timer's sync wrote
C26_Witness ==
    \E w \in Wallets :
        /\ task["timer"][w].pc = "done" /\ task["timer"][w].snaps = 1
        /\ task["timer"][w].cursor_write = "ok"
        /\ task["ws"][w].pc = "done" /\ task["ws"][w].result = "ok"
        /\ task["ws"][w].attempt = 1 /\ task["ws"][w].snaps = 0
        /\ task["ws"][w].asked = "none"
        /\ task["ws"][w].cursor_write = "none"
        /\ Len(snapshots[w]) = 1
        /\ cursor[w].row /\ cursor[w].last_tx_block = Heads[1]

\* the step in which the snapshot insert of the wallet's sync fails
InsertSnapshotFails(tr, w) ==
    /\ task[tr][w].pc = "insert_snapshot"
    /\ task'[tr][w].pc # "insert_snapshot"
    /\ snapshots'[w] = snapshots[w]

\* C27: the step in which insert_snapshot fails ends the attempt as a
\* failed one: the failure count of the task grows by one, the task sleeps
\* before a retry if attempts are left and ends with the insert's error
\* otherwise, and the attempt has written no daily snapshot, no cursor field
\* and no transaction row and has started no scan.
C27_InsertFailureFails ==
    [][\A tr \in Triggers, w \in Wallets :
         InsertSnapshotFails(tr, w) =>
             LET t == task[tr][w]
                 u == task'[tr][w]
             IN
             /\ u.fails = t.fails + 1 /\ u.attempt = t.attempt
             /\ u.snaps = t.snaps /\ ~u.snap
             /\ u.err = "insert_snapshot"
             /\ u.pc = IF t.attempt < cfg.max_retries THEN "backoff" ELSE "done"
             /\ u.pc = "done" => u.result = "err"
             /\ daily' = daily /\ cursor' = cursor /\ txRows' = txRows
             /\ scans' = scans
             /\ u.scan = "none" /\ u.cursor_write = "none"
             /\ u.log_queries = 0 /\ ~u.tx_err]_vars

\* the insert failed at both attempts: the task ended with the insert's
\* error and the sweep recorded it, and no table holds a row of the wallet
C27_Witness ==
    \E w \in Wallets :
        LET t == task["timer"][w] IN
        /\ cfg.max_retries = 2
        /\ t.pc = "done" /\ t.result = "err" /\ t.err = "insert_snapshot"
        /\ t.attempt = 2 /\ t.fails = 2
        /\ snapshots[w] = <<>> /\ ~cursor[w].row /\ txRows = <<>>
        /\ \A d \in Days : ~daily[w][d].row
        /\ Len(runs[w]) = 1 /\ runs[w][1].error = "insert_snapshot"

\* the step of the daily upsert and the daily cursor write
DailyStep(tr, w) == task[tr][w].pc = "daily" /\ task'[tr][w].pc # "daily"

\* the step of the last_tx_block write that ends a scan
CursorStep(tr, w) ==
    task[tr][w].pc = "tx_cursor" /\ task'[tr][w].pc # "tx_cursor"

\* C28: whatever the daily upsert and the last_daily_snapshot_day write did,
\* also when neither left a row, the sync goes on to transaction indexing
\* without a failure counted; whatever the last_tx_block write did, the
\* attempt ends with success; so a task whose cursor write failed, or whose
\* snapshot has no daily row, has ended with success or is on its way.
C28_SideWritesSwallowed ==
    /\ [][\A tr \in Triggers, w \in Wallets :
            /\ DailyStep(tr, w) =>
                   /\ task'[tr][w].pc = "tx_read"
                   /\ task'[tr][w].fails = task[tr][w].fails
                   /\ task'[tr][w].snap
            /\ CursorStep(tr, w) =>
                   /\ task'[tr][w].pc = "done"
                   /\ task'[tr][w].result = "ok"
                   /\ task'[tr][w].fails = task[tr][w].fails]_vars
    /\ [](\A w \in Wallets :
            LET t == task["timer"][w] IN
            /\ t.cursor_write = "failed" => (t.pc = "done" /\ t.result = "ok")
            /\ (t.snaps = 1 /\ t.pc \notin {"daily", "done"}) =>
                   t.pc \in {"tx_read", "tx_logs", "tx_insert", "tx_cursor"})

\* the daily upsert failed and the last_tx_block write failed; transaction
\* indexing ran in between, found a transfer and stored it, and the attempt
\* returned success at once
C28_Witness ==
    \E w \in Wallets :
        LET t == task["timer"][w] IN
        /\ t.pc = "done" /\ t.result = "ok" /\ t.fails = 0 /\ t.snaps = 1
        /\ \A d \in Days : ~daily[w][d].row
        /\ t.scan = "found" /\ t.cursor_write = "failed"
        /\ cursor[w].row /\ cursor[w].last_tx_block = 0
        /\ Len(txRows) >= 1

\* the price_ts of the symbol's history points
PointTimes(symbol) ==
    {price_history[symbol][i].price_ts : i \in 1..Len(price_history[symbol])}

\* C30: with price_usd calls made one after another, a step changes the
\* history of a symbol only as the write of a call whose lookup succeeded
\* and found no point, or a latest point at least 60 s older than the
\* call's now, and that is still so when the point is written; a call whose
\* history lookup failed goes on without a write; so any two points of a
\* symbol are at least 60 s apart.
C30_RecordingInterval ==
    /\ [][\A s \in CacheSymbols :
            price_history'[s] # price_history[s] =>
                \E c \in Callers :
                    LET l == lookup[c] IN
                    /\ l.pc = "persist" /\ l.symbol = s
                    /\ l.looked \in {"absent", "old"}
                    /\ l.looked = "absent" <=> price_history[s] = <<>>
                    /\ should_persist(price_history[s], l.at)
                    /\ price_history'[s] =
                           Append(price_history[s],
                                  [price |-> l.price, price_ts |-> l.at])]_vars
    /\ [](\A c \in Callers :
            /\ lookup[c].looked \in {"err", "recent"} =>
                   lookup[c].persist = "none"
            /\ lookup[c].pc = "persist" =>
                   lookup[c].looked \in {"absent", "old"})
    /\ [](\A s \in CacheSymbols :
            \A t1, t2 \in PointTimes(s) :
                t1 < t2 => t2 - t1 >= RecordMinInterval)

\* a point was written at second 0 and one at second 60; the call made at
\* second 61 found the latest point recent and wrote none
C30_Witness ==
    /\ PointTimes("ETH") = {0, 60}
    /\ now = 61
    /\ lookup["sync"].pc = "done" /\ lookup["sync"].result = "ok"
    /\ lookup["sync"].looked = "recent" /\ lookup["sync"].persist = "none"

\* C29: the Recording and the Cache layer hand on the price of the Fallback
\* layer: the history lookup and the history write leave the call's price
\* as it is and never end the call, whatever their outcome, and the cache
\* upsert ends it with success and that price, whatever its outcome; a call
\* whose Fallback layer failed returns the error without a history lookup,
\* a history write or a cache write.
C29_SideFailuresKeepPrice ==
    /\ [][\A c \in Callers :
            LET l == lookup[c]
                m == lookup'[c]
            IN
            /\ (l.pc = "record" /\ m.pc # "record") =>
                   /\ m.pc \in {"persist", "upsert"} /\ m.price = l.price
                   /\ price_history' = price_history
            /\ (l.pc = "persist" /\ m.pc # "persist") =>
                   (m.pc = "upsert" /\ m.price = l.price)
            /\ (l.pc = "upsert" /\ m.pc # "upsert") =>
                   /\ m.pc = "done" /\ m.result = "ok" /\ m.ret = l.price
                   /\ l.price =
                          FallbackPriceOracle_price_usd(l.primary, l.fallback).price
            /\ (l.pc = "fallback" /\ m.pc = "done") =>
                   /\ m.result = "err"
                   /\ price_history' = price_history
                   /\ price_cache' = price_cache]_vars
    /\ [](\A c \in Callers :
            lookup[c].result = "err" =>
                /\ lookup[c].looked = "none" /\ lookup[c].persist = "none"
                /\ lookup[c].cache_writes = 0)

\* one call returned the primary's price although its history lookup and
\* its cache upsert failed; another returned the fallback provider's price
\* although its history write failed, and the history holds no point
C29_Witness ==
    \E c1, c2 \in Callers :
        /\ lookup[c1].pc = "done" /\ lookup[c1].result = "ok"
        /\ lookup[c1].ret = 3 /\ lookup[c1].looked = "err"
        /\ lookup[c1].cache_writes = 1 /\ ~lookup[c1].wrote
        /\ lookup[c2].pc = "done" /\ lookup[c2].result = "ok"
        /\ lookup[c2].ret = 2 /\ lookup[c2].persist = "failed"
        /\ price_history["ETH"] = <<>>

\* the step in which the call's request ends without a quote, on a
\* non-success status or on a body without the price field
QuoteNotObtained(c) ==
    /\ coingecko.call[c].pc = "request"
    /\ coingecko'.call[c].pc = "done"
    /\ coingecko'.call[c].response \in {"status", "missing"}

\* C31: a call of the primary provider whose request ends with a
\* non-success status or without the price field returns the value its
\* in-process cache held for the symbol, whatever its age, if there was
\* one, and fails only if there was none.
C31_StaleOnFailure ==
    [][\A c \in Callers :
         QuoteNotObtained(c) =>
             LET l == coingecko.call[c]
                 m == coingecko'.call[c]
             IN
             /\ l.stale_price.some => (m.result = "ok" /\ m.ret = l.stale_price.price)
             /\ ~l.stale_price.some => m.result = "err"
             /\ coingecko'.cache = coingecko.cache]_vars

\* the caller's call is between its cache miss and its return
MissInFlight(c) ==
    /\ lookup[c].pc \in {"primary", "fallback", "record", "persist", "upsert"}
    /\ lookup[c].cached = "miss"

\* C32: a caller whose cache read misses while another caller's miss of
\* the same symbol is in flight goes on to the wrapped oracle as well, and
\* is not held back there; the cache has one entry per symbol, each
\* successful upsert replaces it with the entry of the call that made it,
\* so after both calls the entry is the one upserted last.
C32_ConcurrentMisses ==
    /\ [][\A c, d \in Callers :
            (c # d /\ CacheGetStep(c) /\ MissInFlight(d)
                 /\ lookup[d].symbol = lookup'[c].symbol
                 /\ lookup'[c].cached = "miss")
            => lookup'[c].pc = "primary"]_vars
    /\ [](\A c \in Callers :
            lookup[c].pc = "primary" => ENABLED fallback_primary(c))
    /\ [](DOMAIN price_cache = CacheSymbols)
    /\ [][\A c \in Callers :
            (lookup[c].pc = "upsert" /\ lookup'[c].pc = "done"
                 /\ lookup'[c].wrote)
            => price_cache' =
                   [price_cache EXCEPT ![lookup[c].symbol] =
                       [row |-> TRUE, price |-> lookup[c].price,
                        expires_at |-> now + ocfg.ttl]]]_vars
    /\ [](\A c, d \in Callers :
            (c # d /\ lookup[c].pc = "done" /\ lookup[d].pc = "done"
                 /\ lookup[c].cached = "miss" /\ lookup[d].cached = "miss"
                 /\ lookup[c].wrote /\ lookup[d].wrote)
            => \E e \in {c, d} :
                   price_cache["ETH"] =
                       [row |-> TRUE, price |-> lookup[e].ret,
                        expires_at |-> lookup[e].expires_at])

\* both callers missed the expired entry of ETH, both asked the wrapped
\* oracle, which gave one of them 3 and the other, from the static source,
\* 2; both upserted, and the entry is that of the second upsert, 2
C32_Witness ==
    /\ lookup["sync"].pc = "done" /\ lookup["refresher"].pc = "done"
    /\ lookup["sync"].cached = "miss" /\ lookup["refresher"].cached = "miss"
    /\ lookup["sync"].primary_calls = 1
    /\ lookup["refresher"].primary_calls = 1
    /\ lookup["sync"].wrote /\ lookup["refresher"].wrote
    /\ lookup["sync"].ret = 3 /\ lookup["refresher"].ret = 2
    /\ price_cache["ETH"] = [row |-> TRUE, price |-> 2, expires_at |-> 10]

\* C33: every price the composed oracle returns with Ok, from the cache or
\* from the wrapped layers, is > 0; every entry the Cache layer upserts and
\* every point the Recording layer writes has price > 0.
C33_PositivePrices ==
    /\ [](\A c \in Callers :
            (lookup[c].pc = "done" /\ lookup[c].result = "ok")
                => lookup[c].ret > 0)
    /\ [](\A sym \in CacheSymbols :
            \A i \in 1..Len(price_history[sym]) :
                price_history[sym][i].price > 0)
    /\ [][\A sym \in CacheSymbols :
            price_cache'[sym] # price_cache[sym]
                => (price_cache'[sym].row /\ price_cache'[sym].price > 0)]_vars
    /\ [][\A c \in Callers :
            (lookup[c].pc = "upsert" /\ lookup'[c].pc = "done")
                => lookup[c].price > 0]_vars
    /\ [][\A c \in Callers :
            (lookup[c].pc = "persist" /\ lookup'[c].pc = "upsert")
                => lookup[c].price > 0]_vars

\* a call found a live cache entry without a usable price, got 0 from the
\* primary and 2 from the static source, wrote the point and the entry and
\* returned 2; the other caller's call then returned 2 from the cache
C33_Witness ==
    \E c1, c2 \in Callers :
        /\ lookup[c1].pc = "done" /\ lookup[c1].cached = "unusable"
        /\ lookup[c1].fallback_calls = 1 /\ lookup[c1].persist = "ok"
        /\ lookup[c1].wrote /\ lookup[c1].ret = 2
        /\ price_history["ETH"] = <<[price |-> 2, price_ts |-> 0]>>
        /\ price_cache["ETH"].price = 2
        /\ lookup[c2].pc = "done" /\ lookup[c2].cached = "hit"
        /\ lookup[c2].ret = 2

\* C34: a loop whose sweep has returned, with Ok or with Err, is there to
\* start its next iteration: when the timer has slept, or the chain has
\* produced its next block, the loop's next sweep can start (as long as
\* the bound on the sweeps of the model is not reached).
C34_LoopsGoOn ==
    \A tr \in Triggers :
        (sweep[tr].phase = "returned" /\ sweeps_started < MaxSweeps)
            => ENABLED loop_again(tr)

\* the daily row a sync writes: the total and positions of its snapshot
DailyRow(t) ==
    [row |-> TRUE, total_usd_value |-> t.total_usd_value,
     positions |-> t.positions]

\* C35: a wallet has one daily row per day; a sync's daily upsert, when it
\* succeeds, leaves in the row of the day of its snapshot the total and
\* positions of that snapshot, whatever the row held before, and nothing
\* else changes a daily row.
C35_OneDailyRow ==
    /\ [](\A w \in Wallets : DOMAIN daily[w] = Days)
    /\ [](\A tr \in Triggers, w \in Wallets :
            LET t == task[tr][w] IN
            t.pc = "daily" =>
                /\ \E i \in 1..Len(snapshots[w]) :
                       snapshots[w][i] =
                           [timestamp |-> t.timestamp,
                            positions |-> t.positions,
                            total_usd_value |-> t.total_usd_value]
                /\ ENABLED (/\ sync_wallet_daily(tr, w)
                            /\ daily'[w][Day(t.timestamp)] = DailyRow(t)))
    /\ [][\A tr \in Triggers, w \in Wallets :
            DailyStep(tr, w) =>
                \/ daily' = daily
                \/ daily' = [daily EXCEPT ![w][Day(task[tr][w].timestamp)] =
                                 DailyRow(task[tr][w])]]_vars
    /\ [][daily' # daily =>
            \E tr \in Triggers, w \in Wallets : DailyStep(tr, w)]_vars

\* the wallet has two snapshots of day 0, the first with 3 ETH and the
\* second, taken after the balance went to 0, without positions; both syncs
\* are past their daily upsert and the row of day 0 holds the second's
\* total and positions
C35_Witness ==
    /\ Len(snapshots[1]) = 2
    /\ snapshots[1][1].total_usd_value = 6
    /\ snapshots[1][2].total_usd_value = 0
    /\ Day(snapshots[1][1].timestamp) = 0 /\ Day(snapshots[1][2].timestamp) = 0
    /\ \A tr \in OneChain : task[tr][1].pc \in {"tx_read", "tx_cursor", "done"}
    /\ daily[1][0] = [row |-> TRUE, total_usd_value |-> 0, positions |-> <<>>]

\* the sweeps that are running
Overlapping == {tr \in Triggers : sweep[tr].phase = "running"}

\* the tasks of a trigger's sweep that have started and not ended
RunningTasks(tr) == {<<tr, w>> : w \in Running(tr)}

\* the wallet sync tasks that run at once, over all the sweeps
AllRunning == UNION {RunningTasks(tr) : tr \in Triggers}

\* C36: each sweep has its own permits: the tasks a sweep runs never
\* outnumber max_concurrency and do not count against another sweep, so
\* with k sweeps running at most k * max_concurrency tasks run at once.
C36_BoundPerSweep ==
    /\ \A tr \in Triggers :
           /\ tr \notin Overlapping => Running(tr) = {}
           /\ tr \in Overlapping =>
                  sweep[tr].permits + Cardinality(Running(tr))
                      = cfg.max_concurrency
    /\ Cardinality(AllRunning) <= Cardinality(Overlapping) * cfg.max_concurrency

\* with max_concurrency = 1 the timer sweep and the listener's sweep each
\* run a task, two at once, while in both the second wallet waits for the
\* sweep's permit
C36_Witness ==
    /\ cfg.max_concurrency = 1
    /\ Overlapping = {"timer", "ws"}
    /\ Cardinality(AllRunning) = 2
    /\ \A tr \in Overlapping :
           /\ sweep[tr].permits = 0
           /\ sweep[tr].next <= Len(sweep[tr].list)

\* the sync_wallet attempts the tasks of a sweep have made
RECURSIVE Attempts(_, _)
Attempts(tr, ws) ==
    IF ws = {} THEN 0
    ELSE LET w == CHOOSE x \in ws : TRUE
         IN  task[tr][w].attempt + Attempts(tr, ws \ {w})

\* the steps a sweep and its tasks can take
SweepStep(tr) ==
    \/ sync_all_wallets_spawn(tr)
    \/ sync_all_wallets_join(tr)
    \/ \E w \in Wallets :
           \/ retry_backoff(tr, w)
           \/ sync_wallet_guard(tr, w)
           \/ sync_wallet_fetch(tr, w)
           \/ sync_wallet_insert_snapshot(tr, w)
           \/ sync_wallet_daily(tr, w)
           \/ sync_transactions_read(tr, w)
           \/ sync_transactions_cursor(tr, w)

\* C37: the limits a service is built with are at least 1, a configured 0
\* giving the service that 1 gives; a sweep over n wallets makes at most
\* n * max_retries attempts; while it runs, the sweep or one of its tasks
\* can take a step, and a wallet that waits to be spawned when no task
\* runs gets its permit; the sweep returns only when the retry loop of
\* every listed wallet has ended; and when every await completes, a sweep
\* that has started returns.
C37_SweepTerminates ==
    /\ [](/\ cfg.max_concurrency >= 1 /\ cfg.max_retries >= 1
          /\ \A tok, sim \in BOOLEAN :
                 new(0, 0, tok, sim) = new(1, 1, tok, sim))
    /\ [](\A tr \in Triggers :
            /\ Attempts(tr, Wallets) <= Len(sweep[tr].list) * cfg.max_retries
            /\ sweep[tr].phase = "running" => ENABLED SweepStep(tr)
            /\ (sweep[tr].phase = "running" /\ Running(tr) = {}
                    /\ sweep[tr].next <= Len(sweep[tr].list))
                   => ENABLED sync_all_wallets_spawn(tr)
            /\ (sweep[tr].phase = "returned" /\ sweep[tr].list # <<>>) =>
                   /\ sweep[tr].joined = Len(sweep[tr].list) + 1
                   /\ \A w \in Listed(tr) : task[tr][w].pc = "done")
    /\ \A tr \in Triggers :
           (sweep[tr].phase = "running") ~> (sweep[tr].phase = "returned")

\* a sweep of two wallets with max_retries = 2 and one permit has returned
\* after four attempts, every one of which failed
C37_Witness ==
    /\ cfg.max_concurrency = 1 /\ cfg.max_retries = 2
    /\ sweep["timer"].phase = "returned"
    /\ Len(sweep["timer"].list) = 2
    /\ Attempts("timer", Wallets) = 4
    /\ \A w \in Wallets : task["timer"][w].result = "err"

\* C38: on a wallet's cursor row, the write of last_daily_snapshot leaves
\* last_tx_block as it is and the write of last_tx_block leaves
\* last_daily_snapshot as it is, for every day and block that can be
\* written and in every step of a sync that writes one of them.
C38_CursorFieldsApart ==
    /\ [](\A w \in Wallets :
            cursor[w].row =>
                /\ \A day \in Days :
                       LET c == update_last_daily_snapshot(cursor[w], day) IN
                       /\ c.last_tx_block = cursor[w].last_tx_block
                       /\ c.last_daily_snapshot = day
                /\ \A k \in 1..Len(Heads) :
                       LET c == update_last_tx_block(cursor[w], Heads[k]) IN
                       /\ c.last_daily_snapshot = cursor[w].last_daily_snapshot
                       /\ c.last_tx_block = Heads[k])
    /\ [][\A tr \in Triggers, w \in Wallets :
            cursor[w].row =>
                /\ DailyStep(tr, w) =>
                       cursor'[w].last_tx_block = cursor[w].last_tx_block
                /\ CursorStep(tr, w) =>
                       cursor'[w].last_daily_snapshot =
                           cursor[w].last_daily_snapshot]_vars

\* the wallet's row held last_tx_block 2 from an earlier run; the sync of
\* the timer's sweep has inserted its snapshot and written the day, and
\* the row still holds block 2, which its scan is about to read
C38_Witness ==
    /\ sweep["timer"].round = 0
    /\ task["timer"][1].pc = "tx_read"
    /\ Len(snapshots[1]) = 2
    /\ cursor[1].row
    /\ cursor[1].last_tx_block = Heads[1]
    /\ cursor[1].last_daily_snapshot = Day(task["timer"][1].timestamp)

====
